---- MODULE Spec2Model ----
(***************************************************************************)
(* Kalshi volume bot: the control loop of TradingBot with its Exit         *)
(* Handler, Position Monitor, Order Manager and Market Scanner, the venue   *)
(* they talk to, and the rate limiter and retry wrapper of the API client. *)
(*                                                                         *)
(* Specifications:                                                         *)
(*   Spec        the control loop (TradingBot._run_loop) against the venue *)
(*   SpecExit    the Exit Handler's operations, called in any order        *)
(*   SpecMonitor the Position Monitor's operations, called in any order    *)
(*   SpecScan    one or more scans of MarketScanner, market by market      *)
(*   SpecOrders  the Order Manager's operations, called in any order       *)
(*   SpecLimiter RateLimiter.acquire and reset, called from two threads    *)
(*   SpecLimiterLive  SpecLimiter with fair scheduling                     *)
(*   SpecRetry   a call through with_retry, attempt by attempt             *)
(*   SpecLoop    the handlers of TradingBot._run_loop                      *)
(*   SpecCalls   SpecLoop with venue calls rejected for authentication     *)
(*   SpecStop    SpecLoop with stop() at any moment, fairly scheduled      *)
(*   SpecPhases  the phases of an iteration with the orders they place     *)
(*   SpecPages   MarketScanner.scan_iter page by page, with the stop flag  *)
(*   SpecPagesLive  SpecPages with the scan's steps going on               *)
(*   SpecFilters MarketFilters.evaluate on markets and orderbooks          *)
(*   SpecSizer   PositionSizer.calculate_contracts                         *)
(*   SpecEntry   HighProbabilityStrategy.evaluate_entry                    *)
(*   SpecExitRule  HighProbabilityStrategy.evaluate_exit                   *)
(*   SpecSizing  calculate_contracts, directly and through evaluate_entry  *)
(*   SpecGateway the gateway operations of KalshiClient and their grants   *)
(*   SpecStats   DailyStats.print_summary over the trades of a day         *)
(*   SpecCategories  CategoryMatcher on markets and targets                *)
(***************************************************************************)
EXTENDS Integers, Sequences, FiniteSets, TLC

(***************************************************************************)
(* Tickers are character strings; the scanner cuts them at the last dash.  *)
(***************************************************************************)
TkGX == <<"G", "-", "X">>
TkGY == <<"G", "-", "Y">>
TkH == <<"H">>
TkG == <<"G">>
Tickers == {TkGX, TkGY, TkH}

\* The tickers the Exit Handler is driven with in SpecExit.
ExitTickers == {TkGX, TkH}

\* The tickers the venue lists in SpecScan; TkG has no dash and is its own
\* event prefix, which is also the prefix of TkGX and TkGY.
ScanTickers == {TkGX, TkGY, TkH, TkG}

\* Bounds of the model.
MaxOrders == 2
MaxTrades == 2
max_concurrent_positions == 1
MaxMarkets == 4
MaxClock == 2
order_timeout_seconds == 1
max_requests == 2
time_window == 2
MaxQueue == 4
max_retries == 3
base_delay == 1
max_delay == 3
MaxIterations == 3
MaxPages == 3
PageSize == 2
MaxLevels == 2
MaxMinContracts == 2

\* str.rfind("-"): 0-based index of the last dash, -1 when there is none.
RFindDash(ticker) ==
    LET dashes == {i \in 1..Len(ticker) : ticker[i] = "-"}
    IN IF dashes = {} THEN -1
       ELSE (CHOOSE i \in dashes : \A j \in dashes : j <= i) - 1

\* MarketScanner._get_event_prefix
GetEventPrefix(ticker) ==
    LET last_dash == RFindDash(ticker)
    IN IF last_dash > 0 THEN SubSeq(ticker, 1, last_dash) ELSE ticker

(***************************************************************************)
(* The venue's positions read.  KalshiClient.get_positions swallows a      *)
(* failed fetch and answers [], and raises on a payload it cannot walk;    *)
(* PositionMonitor.get_positions stores what the client answers and falls  *)
(* back to its snapshot only when the client raises.                       *)
(***************************************************************************)
ReadOutcomes == {"ok", "fetch_error", "parse_error"}

\* KalshiClient.get_positions: the list it returns (when it returns).
ClientGetPositions(outcome, vp) == IF outcome = "ok" THEN vp ELSE {}

\* KalshiClient.get_positions raises (the payload walk after the fetch).
ClientRaises(outcome) == outcome = "parse_error"

\* PositionMonitor.get_positions: the value returned, which is also the new
\* value of _last_positions.
GetPositions(outcome, vp, snapshot) ==
    IF ClientRaises(outcome) THEN snapshot ELSE ClientGetPositions(outcome, vp)

\* A read that empties the pending-entry set whenever it succeeds.
PendingClearedByRead(outcome, vp, pending) ==
    IF ClientRaises(outcome) THEN pending ELSE {}

\* PositionMonitor.get_positions: the pending-entry set after the call.
GetPositionsPending(outcome, vp, pending) ==
    IF ClientRaises(outcome) THEN pending
    ELSE pending \ ClientGetPositions(outcome, vp)

\* A count that forgets the pending entries: what count_positions would be
\* without its extra_pending term.
CountConfirmedOnly(positions, pending) == Cardinality(positions)

\* PositionMonitor.count_positions on the list get_positions returned and
\* the pending-entry set get_positions left.
CountPositions(positions, pending) ==
    Cardinality(positions) + Cardinality(pending \ positions)

\* PositionMonitor.get_position_tickers
GetPositionTickers(positions, pending) == positions \cup pending

(***************************************************************************)
(* Order Manager.                                                          *)
(***************************************************************************)
\* What a placement can come to: the venue's status of the new order, a
\* status outside the accepted ones, an error the Order Manager catches,
\* an error it lets through.
\* An Order Manager that takes only a working order for placed.
AcceptedWorkingOnly == {"open", "resting"}

AcceptedStatuses == {"open", "resting", "filled", "executed"}
PlaceOutcomes == {"open", "resting", "executed", "rejected", "error", "raise"}

\* OrderManager.place_entry_order / place_exit_order: an OrderResult comes back.
PlaceReturnsResult(outcome) == outcome \in AcceptedStatuses

\* The venue's state of an order placed with this status.
VenueState(status) ==
    IF status \in {"open", "resting", "pending", "partially_filled"}
    THEN "live" ELSE "done"

VARIABLES
    running,          \* TradingBot._running
    dry_run,          \* settings.trading.dry_run
    pc,               \* where the control loop stands
    venuePos,         \* tickers with a position at the venue
    venueOrders,      \* orders at the venue, by order id: [ticker, action, state]
    pendingOrders,    \* OrderManager._pending_orders: order id -> status when placed
    aged,             \* orders 1..aged are older than order_timeout_seconds
    pendingEntry,     \* PositionMonitor._pending_entry_tickers
    pendingExit,      \* ExitHandler._pending_exit_tickers
    lastPositions,    \* PositionMonitor._last_positions
    signals,          \* exit signals returned by check_exits and not yet executed
    opps,             \* opportunities of this scan not yet visited
    ledger,           \* the trade ledger (trades.log) lines of this session
    sessionTrades,    \* DailyStats.session_trades
    existingPositions,\* MarketScanner._existing_positions
    existingEvents,   \* MarketScanner._existing_events
    stopRequested,    \* MarketScanner._stop_requested
    passedTickers,    \* the argument of the latest set_existing_positions
    yielded,          \* what the scan in progress has yielded so far
    scanPc,           \* where scan_iter stands
    examined,         \* markets examined by the scan in progress
    entryMarked,      \* add_pending_entry called, remove_pending_entry not since
    last,             \* the component call just made: [op, res, ret, n]
    clock,            \* datetime.utcnow(), in seconds
    createdAt,        \* OrderResult.created_at of the tracked orders, by order id
    cancelRequested,  \* order ids the latest cancel_stale_orders asked to cancel
    requests,         \* RateLimiter.requests: the timestamps, each kept as its age
    lock,             \* RateLimiter.lock: the thread holding it, 0 when free
    thr,              \* where each thread stands in acquire() or reset()
    sleepLeft,        \* what is left of each thread's time.sleep in acquire()
    slept,            \* the sleeps of each thread's acquire() call in progress
    grants,           \* ages of the grants since the latest reset, up to a window old
    attempt,          \* with_retry: the loop variable
    calls,            \* with_retry: invocations of the wrapped function so far
    sleeps,           \* with_retry: the delays slept so far
    retryPc,          \* with_retry: where the wrapper stands
    retryResult,      \* with_retry: how the wrapper ended
    loopWait,         \* _run_loop: the time.sleep of the handler that ran last
    iterations,       \* _run_loop: iterations started
    scanCursor,       \* scan_iter: cursor, 0 for None
    chainLen,         \* the pages of the venue's cursor chain during this scan
    pageRequests,     \* the cursors of the get_markets calls of this scan
    pageLeft,         \* markets of the current page not yet processed
    bookLog,          \* what scan_iter did with the market just processed
    liquidity_threshold_usd, \* settings.liquidity_threshold_usd
    flagAtStart,      \* _stop_requested as it was when this scan started
    fnArg,            \* the arguments of the function call just made
    fnRes,            \* what that call returned
    phasesDone,       \* _run_loop: the phases this iteration has completed
    gateway           \* the gateway operation in progress and its counts

vars == <<running, dry_run, pc, venuePos, venueOrders, pendingOrders, aged,
          pendingEntry, pendingExit, lastPositions, signals, opps, ledger,
          sessionTrades, existingPositions, existingEvents, stopRequested,
          passedTickers, yielded, scanPc, examined, entryMarked, last,
          clock, createdAt, cancelRequested, requests, lock, thr, sleepLeft,
          slept, grants, attempt, calls, sleeps, retryPc, retryResult,
          loopWait, iterations, scanCursor, chainLen, pageRequests, pageLeft,
          bookLog, liquidity_threshold_usd, flagAtStart, fnArg, fnRes, phasesDone,
          gateway>>

venueVars == <<venuePos, venueOrders>>
tradeVars == <<ledger, sessionTrades>>
loopVars == <<running, dry_run, pc, opps>>
scannerVars == <<existingPositions, existingEvents, passedTickers, yielded,
                 scanPc, examined>>
monitorHistory == <<entryMarked, last>>
orderTimeVars == <<clock, createdAt, cancelRequested>>
limiterVars == <<requests, lock, thr, sleepLeft, slept, grants>>
retryVars == <<attempt, calls, sleeps, retryPc, retryResult>>
handlerVars == <<loopWait, iterations>>
pageVars == <<scanCursor, chainLen, pageRequests, pageLeft, bookLog,
              liquidity_threshold_usd, flagAtStart>>
fnVars == <<fnArg, fnRes>>
apiVars == <<orderTimeVars, limiterVars, retryVars, handlerVars, pageVars,
             fnVars, phasesDone, gateway>>

\* The threads calling the rate limiter.
Threads == {1, 2}

Call(op, res, ret, n) == [op |-> op, res |-> res, ret |-> ret, n |-> n]

Order(ticker, action, state) == [ticker |-> ticker, action |-> action, state |-> state]

\* Exit (sell) orders outstanding at the venue for a ticker.
OutstandingExits(ticker) ==
    {i \in 1..Len(venueOrders) :
        /\ venueOrders[i].ticker = ticker
        /\ venueOrders[i].action = "sell"
        /\ venueOrders[i].state = "live"}

\* Entry (buy) orders in flight at the venue for a ticker.
EntriesInFlight(ticker) ==
    {i \in 1..Len(venueOrders) :
        /\ venueOrders[i].ticker = ticker
        /\ venueOrders[i].action = "buy"
        /\ venueOrders[i].state = "live"}

\* What the account holds at the venue when the bot starts: nothing, or
\* positions of an earlier session.
InitialPositions == {{}, {TkGX, TkH}}

\* The state of every component after construction.
Constructed ==
    /\ venueOrders = <<>>
    /\ pendingOrders = <<>>
    /\ aged = 0
    /\ pendingEntry = {}
    /\ pendingExit = {}
    /\ lastPositions = {}
    /\ signals = {}
    /\ opps = {}
    /\ ledger = <<>>
    /\ sessionTrades = <<>>
    /\ existingPositions = {}
    /\ existingEvents = {}
    /\ stopRequested = FALSE
    /\ passedTickers = {}
    /\ yielded = <<>>
    /\ scanPc = "idle"
    /\ examined = 0
    /\ entryMarked = {}
    /\ last = Call("init", "ok", {}, 0)
    /\ clock = 0
    /\ createdAt = <<>>
    /\ cancelRequested = {}
    /\ requests = <<>>
    /\ lock = 0
    /\ thr = [t \in Threads |-> "idle"]
    /\ sleepLeft = [t \in Threads |-> 0]
    /\ slept = [t \in Threads |-> 0]
    /\ grants = <<>>
    /\ attempt = 0
    /\ calls = 0
    /\ sleeps = <<>>
    /\ retryPc = "idle"
    /\ retryResult = "none"
    /\ loopWait = 0
    /\ iterations = 0
    /\ scanCursor = 0
    /\ chainLen = 1
    /\ pageRequests = <<>>
    /\ pageLeft = 0
    /\ bookLog = [stage |-> "none", fetches |-> 0, book |-> "none",
                  result |-> "none"]
    /\ liquidity_threshold_usd = 0
    /\ flagAtStart = FALSE
    /\ fnArg = <<>>
    /\ fnRes = <<>>
    /\ phasesDone = <<>>
    /\ gateway = [op |-> "none", acquires |-> 0, requests |-> 0, finished |-> 0]

Init ==
    /\ running = TRUE
    /\ dry_run \in BOOLEAN
    /\ pc = "start"
    /\ venuePos \in InitialPositions
    /\ Constructed

(***************************************************************************)
(* Pieces of the handlers, as the code computes them.                      *)
(***************************************************************************)
\* ExitHandler.check_exits: the positions it asks the strategy about.
ExitCandidates(positions, pending_exit) == positions \ pending_exit

\* An execute_exit that marks the ticker whatever place_exit_order returned.
PendingExitAlwaysMarked(pending_exit, ticker, outcome) == pending_exit \cup {ticker}

\* ExitHandler.execute_exit: the pending-exit set after the call.
PendingExitAfterExecute(pending_exit, ticker, outcome) ==
    IF PlaceReturnsResult(outcome) THEN pending_exit \cup {ticker} ELSE pending_exit

\* ExitHandler.execute_exit with _log_exit: the ledger after the call.
LedgerAfterExecute(lines, ticker, outcome) ==
    IF PlaceReturnsResult(outcome) THEN Append(lines, <<"EXIT", ticker>>) ELSE lines

\* A cleanup that empties the pending-exit set whatever the read shows.
PendingExitCleared(pending_exit, current_tickers) == {}

\* TradingBot._check_exits, the cleanup: the pending-exit set after it.
PendingExitAfterCleanup(pending_exit, current_tickers) ==
    LET closed == pending_exit \ current_tickers
    IN pending_exit \ closed

\* TradingBot._scan_and_enter: the position-limit test.
AtPositionLimit(current_count, pending_exit) ==
    current_count - Cardinality(pending_exit) >= max_concurrent_positions

\* TradingBot._scan_and_enter: the pending-entry set after one entry attempt.
PendingEntryAfterAttempt(pending, ticker, outcome) ==
    IF PlaceReturnsResult(outcome) \/ outcome = "raise"
    THEN pending \cup {ticker}
    ELSE (pending \cup {ticker}) \ {ticker}

\* An existing-exposure test that looks at the ticker only, not at its event.
ScannerSkipsTickerOnly(ticker, existing_positions, existing_events) ==
    ticker \in existing_positions

\* MarketScanner.scan_iter: the existing-exposure test of one market.
ScannerSkips(ticker, existing_positions, existing_events) ==
    \/ ticker \in existing_positions
    \/ GetEventPrefix(ticker) \in existing_events

\* MarketScanner.set_existing_positions: the event prefixes it builds.
EventsOf(position_tickers) == {GetEventPrefix(t) : t \in position_tickers}

\* MarketScanner.scan_iter over the markets of a listing that pass the
\* category match and every filter: the tickers it yields, in order.
RECURSIVE ScanList(_, _, _)
ScanList(listing, existing_positions, existing_events) ==
    IF listing = <<>> THEN <<>>
    ELSE LET ticker == Head(listing)
         IN IF ScannerSkips(ticker, existing_positions, existing_events)
            THEN ScanList(Tail(listing), existing_positions, existing_events)
            ELSE <<ticker>> \o ScanList(Tail(listing),
                                        existing_positions \cup {ticker},
                                        existing_events \cup {GetEventPrefix(ticker)})

Range(seq) == {seq[i] : i \in 1..Len(seq)}

\* The venue's listings of markets that pass the filters: any order, no
\* ticker twice.
Listings ==
    {l \in UNION {[1..n -> Tickers] : n \in 0..Cardinality(Tickers)} :
        \A i, j \in 1..Len(l) : i # j => l[i] # l[j]}

\* OrderManager.cancel_stale_orders: the tracked orders it asks to cancel.
StaleOrders(tracked, old) ==
    {id \in DOMAIN tracked : tracked[id] = "open" /\ id <= old}

(***************************************************************************)
(* Operations of the components, shared by the specifications.             *)
(***************************************************************************)
\* OrderManager.place_entry_order / place_exit_order and what the venue
\* does with the order.
PlaceOrder(ticker, action, outcome) ==
    /\ PlaceReturnsResult(outcome) => Len(venueOrders) < MaxOrders
    /\ (action = "sell" /\ outcome = "executed") => ticker \in venuePos
    /\ IF PlaceReturnsResult(outcome)
       THEN /\ venueOrders' = Append(venueOrders,
                                     Order(ticker, action, VenueState(outcome)))
            /\ pendingOrders' = pendingOrders @@ (Len(venueOrders) + 1 :> outcome)
            /\ venuePos' = IF VenueState(outcome) # "done" THEN venuePos
                           ELSE IF action = "buy" THEN venuePos \cup {ticker}
                           ELSE venuePos \ {ticker}
       ELSE UNCHANGED <<venueVars, pendingOrders>>

\* ExitHandler.check_exits; sig is what the strategy wants to exit.
CheckExitsCall(o, sig) ==
    LET positions == GetPositions(o, venuePos, lastPositions)
    IN /\ sig \subseteq ExitCandidates(positions, pendingExit)
       /\ lastPositions' = positions
       /\ pendingEntry' = GetPositionsPending(o, venuePos, pendingEntry)
       /\ signals' = sig

\* ExitHandler.execute_exit with _log_exit.
ExecuteExitCall(ticker, outcome) ==
    /\ PlaceOrder(ticker, "sell", outcome)
    /\ pendingExit' = PendingExitAfterExecute(pendingExit, ticker, outcome)
    /\ ledger' = LedgerAfterExecute(ledger, ticker, outcome)

\* The cleanup of the pending-exit set against a fresh positions read.
CleanupCall(o) ==
    LET current_tickers == GetPositions(o, venuePos, lastPositions)
    IN /\ lastPositions' = current_tickers
       /\ pendingEntry' = GetPositionsPending(o, venuePos, pendingEntry)
       /\ pendingExit' = PendingExitAfterCleanup(pendingExit, current_tickers)

\* _run_loop's handlers: the iteration is abandoned and, after the wait, the
\* loop starts the next one.
Abandon ==
    /\ pc' = "check_exits"
    /\ signals' = {}
    /\ opps' = {}

\* The loop goes on to the next opportunity.
NextOpportunity(ticker) ==
    /\ opps' = opps \ {ticker}
    /\ pc' = IF opps' = {} THEN "log_status" ELSE "enter"
    /\ UNCHANGED signals

(***************************************************************************)
(* TradingBot.start: _initialize_components values the portfolio (one      *)
(* positions read) and log_status reads the positions three times.         *)
(***************************************************************************)
Start(o1, o2, o3, o4) ==
    /\ pc = "start"
    /\ LET p1 == GetPositions(o1, venuePos, lastPositions)
           p2 == GetPositions(o2, venuePos, p1)
           p3 == GetPositions(o3, venuePos, p2)
       IN lastPositions' = GetPositions(o4, venuePos, p3)
    /\ pc' = "check_exits"
    /\ UNCHANGED <<running, dry_run, opps, venueVars, pendingOrders, aged,
                   pendingEntry, pendingExit, signals, tradeVars, scannerVars,
                   stopRequested, monitorHistory, apiVars>>

(***************************************************************************)
(* Phase 1: TradingBot._check_exits.                                       *)
(***************************************************************************)
\* An exit check that goes on although the bot runs dry.
CheckExitsIgnoringDryRun ==
    /\ pc = "check_exits"
    /\ running
    /\ dry_run
    /\ \E o \in ReadOutcomes, sig \in SUBSET Tickers :
          /\ CheckExitsCall(o, sig)
          /\ pc' = IF sig = {} THEN "cleanup" ELSE "execute_exit"
    /\ UNCHANGED <<running, dry_run, opps, venueVars, pendingOrders, aged,
                   pendingExit, tradeVars, scannerVars, stopRequested,
                   monitorHistory, apiVars>>

\* _check_exits: if self.settings.trading.dry_run: return.
CheckExitsDryRun ==
    /\ pc = "check_exits"
    /\ running
    /\ dry_run
    /\ pc' = "cancel_stale"
    /\ UNCHANGED <<running, dry_run, opps, venueVars, pendingOrders, aged,
                   pendingEntry, pendingExit, lastPositions, signals, tradeVars,
                   scannerVars, stopRequested, monitorHistory, apiVars>>

CheckExits(o, sig) ==
    /\ pc = "check_exits"
    /\ running
    /\ ~dry_run
    /\ CheckExitsCall(o, sig)
    /\ pc' = IF sig = {} THEN "cleanup" ELSE "execute_exit"
    /\ UNCHANGED <<running, dry_run, opps, venueVars, pendingOrders, aged,
                   pendingExit, tradeVars, scannerVars, stopRequested,
                   monitorHistory, apiVars>>

ExecuteExit(ticker, outcome) ==
    /\ pc = "execute_exit"
    /\ ticker \in signals
    /\ ExecuteExitCall(ticker, outcome)
    /\ sessionTrades' = IF PlaceReturnsResult(outcome)
                        THEN Append(sessionTrades, <<"exit", ticker>>)
                        ELSE sessionTrades
    /\ IF outcome = "raise"
       THEN Abandon
       ELSE /\ signals' = signals \ {ticker}
            /\ pc' = IF signals' = {} THEN "cleanup" ELSE "execute_exit"
            /\ UNCHANGED opps
    /\ UNCHANGED <<running, dry_run, aged, pendingEntry, lastPositions,
                   scannerVars, stopRequested, monitorHistory, apiVars>>

Cleanup(o) ==
    /\ pc = "cleanup"
    /\ CleanupCall(o)
    /\ pc' = "cancel_stale"
    /\ UNCHANGED <<running, dry_run, opps, venueVars, pendingOrders, aged,
                   signals, tradeVars, scannerVars, stopRequested, monitorHistory, apiVars>>

(***************************************************************************)
(* Phase 2: TradingBot._cancel_stale_orders.                               *)
(***************************************************************************)
CancelStaleOrders(cancelled) ==
    /\ pc = "cancel_stale"
    /\ cancelled \subseteq {id \in StaleOrders(pendingOrders, aged) :
                               venueOrders[id].state = "live"}
    /\ venueOrders' = [i \in 1..Len(venueOrders) |->
                         IF i \in cancelled
                         THEN [venueOrders[i] EXCEPT !.state = "cancelled"]
                         ELSE venueOrders[i]]
    /\ pendingOrders' = [id \in DOMAIN pendingOrders \ cancelled |-> pendingOrders[id]]
    /\ pc' = "scan_gate"
    /\ UNCHANGED <<running, dry_run, opps, venuePos, aged, pendingEntry,
                   pendingExit, lastPositions, signals, tradeVars, scannerVars,
                   stopRequested, monitorHistory, apiVars>>

(***************************************************************************)
(* Phase 3: TradingBot._scan_and_enter.                                    *)
(***************************************************************************)
ScanGate(o) ==
    /\ pc = "scan_gate"
    /\ LET positions == GetPositions(o, venuePos, lastPositions)
           pending == GetPositionsPending(o, venuePos, pendingEntry)
           current_count == CountPositions(positions, pending)
       IN /\ lastPositions' = positions
          /\ pendingEntry' = pending
          /\ pc' = IF AtPositionLimit(current_count, pendingExit)
                   THEN "log_status" ELSE "scan"
    /\ UNCHANGED <<running, dry_run, opps, venueVars, pendingOrders, aged,
                   pendingExit, signals, tradeVars, scannerVars, stopRequested,
                   monitorHistory, apiVars>>

\* What one scan can yield, as a set (the caller shuffles the list), over
\* every listing the venue may serve.
ScanResults(existing) ==
    {Range(ScanList(listing, existing, EventsOf(existing))) : listing \in Listings}

\* get_position_tickers, set_existing_positions, the portfolio value (a
\* balance read and a positions read) and the whole of scan_iter.  The
\* scanner's sets are rebuilt by set_existing_positions at the start of
\* every scan, so in the loop they live and die inside this step; SpecScan
\* follows them market by market.
Scan(o, o2, res) ==
    /\ pc = "scan"
    /\ LET positions == GetPositions(o, venuePos, lastPositions)
           pending == GetPositionsPending(o, venuePos, pendingEntry)
           existing == GetPositionTickers(positions, pending)
       IN /\ lastPositions' = GetPositions(o2, venuePos, positions)
          /\ pendingEntry' = GetPositionsPending(o2, venuePos, pending)
          /\ IF res = "raise"
             THEN Abandon
             ELSE /\ \E found \in (IF stopRequested THEN {{}} ELSE ScanResults(existing)) :
                       /\ opps' = found
                       /\ pc' = IF found = {} THEN "log_status" ELSE "enter"
                  /\ UNCHANGED signals
    /\ UNCHANGED <<running, dry_run, venueVars, pendingOrders, aged, pendingExit,
                   tradeVars, scannerVars, stopRequested, monitorHistory, apiVars>>

\* One turn of the loop over the shuffled opportunities: the limit is
\* reached and the loop breaks.
EnterLimit(ticker, o) ==
    /\ pc = "enter"
    /\ ticker \in opps
    /\ LET positions == GetPositions(o, venuePos, lastPositions)
           pending == GetPositionsPending(o, venuePos, pendingEntry)
       IN /\ AtPositionLimit(CountPositions(positions, pending), pendingExit)
          /\ lastPositions' = positions
          /\ pendingEntry' = pending
    /\ opps' = {}
    /\ pc' = "log_status"
    /\ UNCHANGED <<running, dry_run, venueVars, pendingOrders, aged, pendingExit,
                   signals, tradeVars, scannerVars, stopRequested, monitorHistory, apiVars>>

\* ... evaluate_entry gives no signal.
EnterNoSignal(ticker, o) ==
    /\ pc = "enter"
    /\ ticker \in opps
    /\ LET positions == GetPositions(o, venuePos, lastPositions)
           pending == GetPositionsPending(o, venuePos, pendingEntry)
       IN /\ ~AtPositionLimit(CountPositions(positions, pending), pendingExit)
          /\ lastPositions' = positions
          /\ pendingEntry' = pending
    /\ NextOpportunity(ticker)
    /\ UNCHANGED <<running, dry_run, venueVars, pendingOrders, aged, pendingExit,
                   tradeVars, scannerVars, stopRequested, monitorHistory, apiVars>>

\* ... dry run: the would-be entry is only recorded.
EnterDryRun(ticker, o) ==
    /\ pc = "enter"
    /\ ticker \in opps
    /\ dry_run
    /\ Len(sessionTrades) < MaxTrades
    /\ LET positions == GetPositions(o, venuePos, lastPositions)
           pending == GetPositionsPending(o, venuePos, pendingEntry)
       IN /\ ~AtPositionLimit(CountPositions(positions, pending), pendingExit)
          /\ lastPositions' = positions
          /\ pendingEntry' = pending
    /\ sessionTrades' = Append(sessionTrades, <<"entry", ticker>>)
    /\ NextOpportunity(ticker)
    /\ UNCHANGED <<running, dry_run, venueVars, pendingOrders, aged, pendingExit,
                   ledger, scannerVars, stopRequested, monitorHistory, apiVars>>

\* ... add_pending_entry, place_entry_order, and what follows its result.
EnterAttempt(ticker, o, outcome) ==
    /\ pc = "enter"
    /\ ticker \in opps
    /\ ~dry_run
    /\ LET positions == GetPositions(o, venuePos, lastPositions)
           pending == GetPositionsPending(o, venuePos, pendingEntry)
       IN /\ ~AtPositionLimit(CountPositions(positions, pending), pendingExit)
          /\ lastPositions' = positions
          /\ pendingEntry' = PendingEntryAfterAttempt(pending, ticker, outcome)
    /\ PlaceOrder(ticker, "buy", outcome)
    /\ ledger' = IF PlaceReturnsResult(outcome)
                 THEN Append(ledger, <<"ENTRY", ticker>>) ELSE ledger
    /\ sessionTrades' = IF PlaceReturnsResult(outcome)
                        THEN Append(sessionTrades, <<"entry", ticker>>)
                        ELSE sessionTrades
    /\ IF outcome = "raise" THEN Abandon ELSE NextOpportunity(ticker)
    /\ UNCHANGED <<running, dry_run, aged, pendingExit, scannerVars,
                   stopRequested, monitorHistory, apiVars>>

\* PortfolioTracker.log_status: a balance read and three positions reads.
LogStatus(o1, o2, o3, res) ==
    /\ pc = "log_status"
    /\ LET p1 == GetPositions(o1, venuePos, lastPositions)
           e1 == GetPositionsPending(o1, venuePos, pendingEntry)
           p2 == GetPositions(o2, venuePos, p1)
           e2 == GetPositionsPending(o2, venuePos, e1)
           p3 == GetPositions(o3, venuePos, p2)
           e3 == GetPositionsPending(o3, venuePos, e2)
       IN IF res = "raise"
          THEN /\ Abandon
               /\ UNCHANGED <<lastPositions, pendingEntry>>
          ELSE /\ lastPositions' = p3
               /\ pendingEntry' = e3
               /\ pc' = "sleep"
               /\ UNCHANGED <<signals, opps>>
    /\ UNCHANGED <<running, dry_run, venueVars, pendingOrders, aged, pendingExit,
                   tradeVars, scannerVars, stopRequested, monitorHistory, apiVars>>

\* The sleep until the next scan; time passes and orders grow old.
Sleep(old) ==
    /\ pc = "sleep"
    /\ pc' = "check_exits"
    /\ old \in aged..Len(venueOrders)
    /\ aged' = old
    /\ UNCHANGED <<running, dry_run, opps, venueVars, pendingOrders, pendingEntry,
                   pendingExit, lastPositions, signals, tradeVars, scannerVars,
                   stopRequested, monitorHistory, apiVars>>

(***************************************************************************)
(* The venue: a live order fills.                                          *)
(***************************************************************************)
VenueFill(i) ==
    /\ i \in 1..Len(venueOrders)
    /\ venueOrders[i].state = "live"
    /\ venueOrders[i].action = "sell" => venueOrders[i].ticker \in venuePos
    /\ venueOrders' = [venueOrders EXCEPT ![i].state = "done"]
    /\ venuePos' = IF venueOrders[i].action = "buy"
                   THEN venuePos \cup {venueOrders[i].ticker}
                   ELSE venuePos \ {venueOrders[i].ticker}
    /\ UNCHANGED <<loopVars, pendingOrders, aged, pendingEntry, pendingExit,
                   lastPositions, signals, tradeVars, scannerVars, stopRequested,
                   monitorHistory, apiVars>>

Next ==
    \/ \E o1 \in ReadOutcomes, o2 \in ReadOutcomes, o3 \in ReadOutcomes,
          o4 \in ReadOutcomes : Start(o1, o2, o3, o4)
    \/ CheckExitsDryRun
    \/ \E o \in ReadOutcomes, sig \in SUBSET Tickers : CheckExits(o, sig)
    \/ \E ticker \in Tickers, outcome \in PlaceOutcomes : ExecuteExit(ticker, outcome)
    \/ \E o \in ReadOutcomes : Cleanup(o)
    \/ \E cancelled \in SUBSET (1..MaxOrders) : CancelStaleOrders(cancelled)
    \/ \E o \in ReadOutcomes : ScanGate(o)
    \/ \E o \in ReadOutcomes, o2 \in ReadOutcomes, res \in {"ok", "raise"} :
         Scan(o, o2, res)
    \/ \E ticker \in Tickers, o \in ReadOutcomes : EnterLimit(ticker, o)
    \/ \E ticker \in Tickers, o \in ReadOutcomes : EnterNoSignal(ticker, o)
    \/ \E ticker \in Tickers, o \in ReadOutcomes : EnterDryRun(ticker, o)
    \/ \E ticker \in Tickers, o \in ReadOutcomes, outcome \in PlaceOutcomes :
         EnterAttempt(ticker, o, outcome)
    \/ \E o1 \in ReadOutcomes, o2 \in ReadOutcomes, o3 \in ReadOutcomes,
          res \in {"ok", "raise"} : LogStatus(o1, o2, o3, res)
    \/ \E old \in 0..MaxOrders : Sleep(old)
    \/ \E i \in 1..MaxOrders : VenueFill(i)

Spec == Init /\ [][Next]_vars

(***************************************************************************)
(* Claims about the control loop, checked under Spec.                      *)
(***************************************************************************)
\* The step places an entry (buy) order for the ticker.
EntryPlaced(ticker) ==
    /\ Len(venueOrders') = Len(venueOrders) + 1
    /\ venueOrders'[Len(venueOrders')].ticker = ticker
    /\ venueOrders'[Len(venueOrders')].action = "buy"

\* The step places an exit (sell) order for the ticker.
ExitPlaced(ticker) ==
    /\ Len(venueOrders') = Len(venueOrders) + 1
    /\ venueOrders'[Len(venueOrders')].ticker = ticker
    /\ venueOrders'[Len(venueOrders')].action = "sell"

\* The tickers sharing the ticker's event prefix, itself included.
SameEvent(ticker) == {u \in Tickers : GetEventPrefix(u) = GetEventPrefix(ticker)}

\* The ticker has open exposure: a position at the venue or an entry order
\* in flight.
OpenExposure(ticker) == ticker \in venuePos \/ EntriesInFlight(ticker) # {}

\* C1: in every reachable state of the control loop at most one exit order
\* placed by the Exit Handler is outstanding at the venue for any one ticker.
C1_AtMostOneOutstandingExit ==
    \A ticker \in Tickers : Cardinality(OutstandingExits(ticker)) <= 1

\* C3: the bot never places an entry order for a ticker while that ticker,
\* or another ticker of the same event, has open exposure.
C3_NoEntryOnOpenExposure ==
    [][\A ticker \in Tickers :
          EntryPlaced(ticker) => \A u \in SameEvent(ticker) : ~OpenExposure(u)]_vars

\* C4: the bot never places an entry order when the tickers with a confirmed
\* position (the read its limit test has just used) or a pending entry,
\* other than those with an exit pending, already number
\* max_concurrent_positions or more.
C4_PendingEntriesCountTowardLimit ==
    [][\A ticker \in Tickers :
          EntryPlaced(ticker) =>
              Cardinality((lastPositions' \cup (pendingEntry' \ {ticker})) \ pendingExit)
                  < max_concurrent_positions]_vars

\* C7: after an entry attempt that fails, by a none result or by an error
\* raised, the ticker is not in the pending-entry set, no ENTRY line was
\* written and no in-session entry recorded.
C7_FailedEntryLeavesNoTrace ==
    [][\A ticker \in Tickers, o \in ReadOutcomes :
          \A outcome \in {"rejected", "error", "raise"} :
              EnterAttempt(ticker, o, outcome) =>
                  /\ ticker \notin pendingEntry'
                  /\ ledger' = ledger
                  /\ sessionTrades' = sessionTrades]_vars

(***************************************************************************)
(* SpecMonitor: the Position Monitor's operations, called in any order,    *)
(* while the venue opens and closes positions.                             *)
(***************************************************************************)
monitorFrame == <<running, dry_run, pc, venueOrders, pendingOrders, aged,
                  pendingExit, signals, opps, tradeVars, scannerVars,
                  stopRequested, apiVars>>

\* PositionMonitor.add_pending_entry
AddPendingEntry(ticker) ==
    /\ pendingEntry' = pendingEntry \cup {ticker}
    /\ entryMarked' = entryMarked \cup {ticker}
    /\ last' = Call("add_pending_entry", "ok", {ticker}, 0)
    /\ UNCHANGED <<venuePos, lastPositions, monitorFrame>>

\* PositionMonitor.remove_pending_entry
RemovePendingEntry(ticker) ==
    /\ pendingEntry' = pendingEntry \ {ticker}
    /\ entryMarked' = entryMarked \ {ticker}
    /\ last' = Call("remove_pending_entry", "ok", {ticker}, 0)
    /\ UNCHANGED <<venuePos, lastPositions, monitorFrame>>

\* PositionMonitor.get_positions; o is what the venue's read comes to.
MonGetPositions(o) ==
    /\ lastPositions' = GetPositions(o, venuePos, lastPositions)
    /\ pendingEntry' = GetPositionsPending(o, venuePos, pendingEntry)
    /\ last' = Call("get_positions", o, lastPositions', 0)
    /\ UNCHANGED <<venuePos, entryMarked, monitorFrame>>

\* PositionMonitor.count_positions
MonCountPositions(o) ==
    /\ lastPositions' = GetPositions(o, venuePos, lastPositions)
    /\ pendingEntry' = GetPositionsPending(o, venuePos, pendingEntry)
    /\ last' = Call("count_positions", o, lastPositions',
                    CountPositions(lastPositions', pendingEntry'))
    /\ UNCHANGED <<venuePos, entryMarked, monitorFrame>>

\* PositionMonitor.get_position_tickers
MonGetPositionTickers(o) ==
    /\ lastPositions' = GetPositions(o, venuePos, lastPositions)
    /\ pendingEntry' = GetPositionsPending(o, venuePos, pendingEntry)
    /\ last' = Call("get_position_tickers", o,
                    GetPositionTickers(lastPositions', pendingEntry'), 0)
    /\ UNCHANGED <<venuePos, entryMarked, monitorFrame>>

\* The venue: a position appears (an entry fills).
VenueOpens(ticker) ==
    /\ ticker \notin venuePos
    /\ venuePos' = venuePos \cup {ticker}
    /\ UNCHANGED <<loopVars, venueOrders, pendingOrders, aged, pendingEntry,
                   pendingExit, lastPositions, signals, tradeVars, scannerVars,
                   stopRequested, monitorHistory, apiVars>>

\* The venue: a position disappears (it is sold or its market settles).
VenueCloses(ticker) ==
    /\ ticker \in venuePos
    /\ venuePos' = venuePos \ {ticker}
    /\ UNCHANGED <<loopVars, venueOrders, pendingOrders, aged, pendingEntry,
                   pendingExit, lastPositions, signals, tradeVars, scannerVars,
                   stopRequested, monitorHistory, apiVars>>

InitMonitor ==
    /\ running = FALSE
    /\ dry_run = FALSE
    /\ pc = "idle"
    /\ venuePos \in SUBSET Tickers
    /\ Constructed

NextMonitor ==
    \/ \E ticker \in Tickers : AddPendingEntry(ticker)
    \/ \E ticker \in Tickers : RemovePendingEntry(ticker)
    \/ \E o \in ReadOutcomes : MonGetPositions(o)
    \/ \E o \in ReadOutcomes : MonCountPositions(o)
    \/ \E o \in ReadOutcomes : MonGetPositionTickers(o)
    \/ \E ticker \in Tickers : VenueOpens(ticker)
    \/ \E ticker \in Tickers : VenueCloses(ticker)

SpecMonitor == InitMonitor /\ [][NextMonitor]_vars

(***************************************************************************)
(* SpecExit: the Exit Handler's operations and the loop's cleanup, called  *)
(* in any order.  The caller holds the signals of its latest check_exits   *)
(* and executes each at most once.                                         *)
(***************************************************************************)
\* The placements the Exit Handler is driven with: a resting exit stands for
\* an open one, the Exit Handler reads no status.
ExitOutcomes == PlaceOutcomes \ {"open"}

exitFrame == <<running, dry_run, opps, aged, sessionTrades, scannerVars,
               stopRequested, monitorHistory, apiVars>>

\* ExitHandler.check_exits
XCheckExits(o, sig) ==
    /\ pc = "idle"
    /\ CheckExitsCall(o, sig)
    /\ UNCHANGED <<pc, venueVars, pendingOrders, pendingExit, ledger, exitFrame>>

\* ExitHandler.execute_exit on a signal the caller holds.
XExecuteExit(ticker, outcome) ==
    /\ pc = "idle"
    /\ ticker \in signals
    /\ ExecuteExitCall(ticker, outcome)
    /\ signals' = signals \ {ticker}
    /\ UNCHANGED <<pc, pendingEntry, lastPositions, exitFrame>>

\* ExitHandler.execute_all_exits up to its loop: its cleanup on a first
\* read, then check_exits on a second.
ExecuteAllExits(o1, o2, sig) ==
    /\ pc = "idle"
    /\ LET current_tickers == GetPositions(o1, venuePos, lastPositions)
           pending == GetPositionsPending(o1, venuePos, pendingEntry)
           cleaned == PendingExitAfterCleanup(pendingExit, current_tickers)
           positions == GetPositions(o2, venuePos, current_tickers)
       IN /\ sig \subseteq ExitCandidates(positions, cleaned)
          /\ pendingExit' = cleaned
          /\ lastPositions' = positions
          /\ pendingEntry' = GetPositionsPending(o2, venuePos, pending)
          /\ signals' = sig
          /\ pc' = IF sig = {} THEN "idle" ELSE "all"
    /\ UNCHANGED <<venueVars, pendingOrders, ledger, exitFrame>>

\* ExitHandler.execute_all_exits, one turn of its loop over the signals.
ExecuteAllStep(ticker, outcome) ==
    /\ pc = "all"
    /\ ticker \in signals
    /\ ExecuteExitCall(ticker, outcome)
    /\ signals' = IF outcome = "raise" THEN {} ELSE signals \ {ticker}
    /\ pc' = IF signals' = {} THEN "idle" ELSE "all"
    /\ UNCHANGED <<pendingEntry, lastPositions, exitFrame>>

\* ExitHandler.force_exit
ForceExit(ticker, o, outcome) ==
    /\ pc = "idle"
    /\ LET positions == GetPositions(o, venuePos, lastPositions)
       IN /\ lastPositions' = positions
          /\ pendingEntry' = GetPositionsPending(o, venuePos, pendingEntry)
          /\ IF ticker \in positions
             THEN ExecuteExitCall(ticker, outcome)
             ELSE /\ outcome = "rejected"
                  /\ UNCHANGED <<venueVars, pendingOrders, pendingExit, ledger>>
    /\ UNCHANGED <<pc, signals, exitFrame>>

\* TradingBot._check_exits, its cleanup.
LoopCleanup(o) ==
    /\ pc = "idle"
    /\ CleanupCall(o)
    /\ UNCHANGED <<pc, venueVars, pendingOrders, signals, ledger, exitFrame>>

InitExit ==
    /\ running = FALSE
    /\ dry_run = FALSE
    /\ pc = "idle"
    /\ venuePos \in SUBSET ExitTickers
    /\ Constructed

NextExit ==
    \/ \E o \in ReadOutcomes, sig \in SUBSET ExitTickers : XCheckExits(o, sig)
    \/ \E ticker \in ExitTickers, outcome \in ExitOutcomes :
         XExecuteExit(ticker, outcome)
    \/ \E o1 \in ReadOutcomes, o2 \in ReadOutcomes, sig \in SUBSET ExitTickers :
         ExecuteAllExits(o1, o2, sig)
    \/ \E ticker \in ExitTickers, outcome \in ExitOutcomes :
         ExecuteAllStep(ticker, outcome)
    \/ \E ticker \in ExitTickers, o \in ReadOutcomes, outcome \in ExitOutcomes :
         ForceExit(ticker, o, outcome)
    \/ \E o \in ReadOutcomes : LoopCleanup(o)
    \/ \E i \in 1..MaxOrders : VenueFill(i)
    \/ \E ticker \in ExitTickers : VenueOpens(ticker)
    \/ \E ticker \in ExitTickers : VenueCloses(ticker)

SpecExit == InitExit /\ [][NextExit]_vars

(***************************************************************************)
(* SpecScan: MarketScanner, market by market.  A scan walks the pages the  *)
(* venue serves; every market it examines is any ticker with any verdict   *)
(* of the filters.                                                         *)
(***************************************************************************)
scanRest == <<running, dry_run, pc, venueVars, pendingOrders, aged,
              pendingEntry, pendingExit, lastPositions, signals, opps,
              tradeVars, entryMarked, apiVars>>
scanFrame == <<scanRest, last>>

\* What the category match, the filters and the evaluation of one market
\* come to.
Verdicts == {"opportunity", "filtered", "error"}

\* MarketScanner.set_existing_positions
SetExistingPositions(position_tickers) ==
    /\ scanPc = "idle"
    /\ existingPositions' = position_tickers
    /\ existingEvents' = EventsOf(position_tickers)
    /\ passedTickers' = position_tickers
    /\ yielded' = <<>>
    /\ UNCHANGED <<scanPc, examined, stopRequested, scanFrame>>

\* MarketScanner.scan_iter is started.
ScanStart ==
    /\ scanPc = "idle"
    /\ scanPc' = "loop"
    /\ yielded' = <<>>
    /\ examined' = 0
    /\ last' = Call("scan_iter", "started", {}, 0)
    /\ UNCHANGED <<existingPositions, existingEvents, passedTickers,
                   stopRequested, scanRest>>

\* A scan that gives up at the first market whose evaluation raises.
ErrorEndsScan(verdict) == IF verdict = "error" THEN "idle" ELSE "page"

\* scan_iter: except Exception around the orderbook fetch and the
\* evaluation of one market: the error is logged and the for loop goes on.
AfterMarket(verdict) == "page"

\* scan_iter: the stop test and the fetch of the next page; an error of
\* get_markets is not caught and leaves scan_iter.
FetchPage(res) ==
    /\ scanPc = "loop"
    /\ res = "markets" => examined < MaxMarkets
    /\ scanPc' = IF stopRequested \/ res # "markets" THEN "idle" ELSE "first"
    /\ last' = IF stopRequested THEN Call("scan_iter", "stopped", {}, examined)
               ELSE Call("get_markets",
                         IF res = "raise" THEN "raised" ELSE res, {}, examined)
    /\ UNCHANGED <<existingPositions, existingEvents, passedTickers, yielded,
                   examined, stopRequested, scanRest>>

\* scan_iter: one market of the page.
ExamineMarket(ticker, verdict) ==
    /\ scanPc \in {"first", "page"}
    /\ examined < MaxMarkets
    /\ examined' = examined + 1
    /\ IF ScannerSkips(ticker, existingPositions, existingEvents)
       THEN /\ scanPc' = "page"
            /\ last' = Call("examine", "skipped", {ticker}, examined + 1)
            /\ UNCHANGED <<existingPositions, existingEvents, yielded>>
       ELSE /\ scanPc' = AfterMarket(verdict)
            /\ last' = Call("examine", verdict, {ticker}, examined + 1)
            /\ IF verdict = "opportunity"
               THEN /\ existingPositions' = existingPositions \cup {ticker}
                    /\ existingEvents' =
                          existingEvents \cup {GetEventPrefix(ticker)}
                    /\ yielded' = Append(yielded, ticker)
               ELSE UNCHANGED <<existingPositions, existingEvents, yielded>>
    /\ UNCHANGED <<passedTickers, stopRequested, scanRest>>

\* scan_iter: the page is done; with a cursor the loop goes on.
PageEnd(cursor) ==
    /\ scanPc = "page"
    /\ scanPc' = IF cursor THEN "loop" ELSE "idle"
    /\ UNCHANGED <<existingPositions, existingEvents, passedTickers, yielded,
                   examined, stopRequested, scanFrame>>

\* TradingBot.stop: the scan in progress is asked to stop.
RequestStop ==
    /\ ~stopRequested
    /\ stopRequested' = TRUE
    /\ UNCHANGED <<scannerVars, scanFrame>>

InitScan ==
    /\ running = FALSE
    /\ dry_run = FALSE
    /\ pc = "idle"
    /\ venuePos = {}
    /\ Constructed

NextScan ==
    \/ \E position_tickers \in SUBSET ScanTickers :
         SetExistingPositions(position_tickers)
    \/ ScanStart
    \/ \E res \in {"markets", "empty", "raise"} : FetchPage(res)
    \/ \E ticker \in ScanTickers, verdict \in Verdicts :
         ExamineMarket(ticker, verdict)
    \/ \E cursor \in BOOLEAN : PageEnd(cursor)
    \/ RequestStop

SpecScan == InitScan /\ [][NextScan]_vars

(***************************************************************************)
(* SpecOrders: the Order Manager's operations, called in any order, while  *)
(* time passes.                                                            *)
(***************************************************************************)
\* OrderStatus: what the venue can report of a new order.
VenueStatuses == {"pending", "open", "resting", "executed", "filled",
                  "partially_filled", "cancelled", "failed"}

\* KalshiClient.place_order: the errors it raises.
PlaceErrors == {"insufficient_funds", "market_closed", "rate_limit", "order_failed"}

\* The errors place_entry_order (buy) and place_exit_order (sell) catch.
Catches(action) ==
    IF action = "buy"
    THEN {"insufficient_funds", "market_closed", "order_failed"}
    ELSE {"market_closed", "order_failed"}

\* The name of the operation that places an order with this action.
PlaceOp(action) == IF action = "buy" THEN "place_entry_order" ELSE "place_exit_order"

\* A staleness test that cancels at the timeout, not after it.
IsStaleAtTimeout(status, created_at, now) ==
    status = "open" /\ now - created_at >= order_timeout_seconds

\* OrderManager.cancel_stale_orders: the test of one tracked order.
IsStale(status, created_at, now) ==
    status = "open" /\ now - created_at > order_timeout_seconds

ordersFrame == <<running, dry_run, pc, venuePos, aged, pendingEntry, pendingExit,
                 lastPositions, signals, opps, tradeVars, scannerVars,
                 stopRequested, entryMarked, limiterVars, retryVars,
                 handlerVars, pageVars, fnVars, phasesDone, gateway>>

\* OrderManager.place_entry_order (action buy) and place_exit_order (action
\* sell); outcome is the status of the order the venue returns, or the error
\* KalshiClient.place_order raises.
OMPlace(action, ticker, outcome) ==
    /\ IF outcome \in VenueStatuses
       THEN /\ Len(venueOrders) < MaxOrders
            /\ venueOrders' = Append(venueOrders,
                                     Order(ticker, action, VenueState(outcome)))
            /\ IF outcome \in AcceptedStatuses
               THEN /\ pendingOrders' = pendingOrders @@ (Len(venueOrders) + 1 :> outcome)
                    /\ createdAt' = createdAt @@ (Len(venueOrders) + 1 :> clock)
                    /\ last' = Call(PlaceOp(action), "result", {Len(venueOrders) + 1}, 0)
               ELSE /\ UNCHANGED <<pendingOrders, createdAt>>
                    /\ last' = Call(PlaceOp(action), "none", {}, 0)
       ELSE /\ UNCHANGED <<venueOrders, pendingOrders, createdAt>>
            /\ last' = Call(PlaceOp(action),
                            IF outcome \in Catches(action) THEN "none" ELSE "raised",
                            {}, 0)
    /\ UNCHANGED <<clock, cancelRequested, ordersFrame>>

\* OrderManager.cancel_stale_orders; done are the orders whose cancel_order
\* returned True.
OMCancelStale(done) ==
    LET stale == {id \in DOMAIN pendingOrders :
                     IsStale(pendingOrders[id], createdAt[id], clock)}
    IN /\ done \subseteq stale
       /\ cancelRequested' = stale
       /\ venueOrders' = [i \in 1..Len(venueOrders) |->
                            IF i \in done
                            THEN [venueOrders[i] EXCEPT !.state = "cancelled"]
                            ELSE venueOrders[i]]
       /\ pendingOrders' = [id \in DOMAIN pendingOrders \ done |-> pendingOrders[id]]
       /\ createdAt' = [id \in DOMAIN createdAt \ done |-> createdAt[id]]
       /\ last' = Call("cancel_stale_orders", "result", done, 0)
       /\ UNCHANGED <<clock, ordersFrame>>

\* A second passes.
ClockTick ==
    /\ clock < MaxClock
    /\ clock' = clock + 1
    /\ UNCHANGED <<venueOrders, pendingOrders, createdAt, cancelRequested, last,
                   ordersFrame>>

InitOrders ==
    /\ running = FALSE
    /\ dry_run = FALSE
    /\ pc = "idle"
    /\ venuePos = {}
    /\ Constructed

NextOrders ==
    \/ \E action \in {"buy", "sell"}, outcome \in VenueStatuses \cup PlaceErrors :
         OMPlace(action, TkH, outcome)
    \/ \E done \in SUBSET (1..MaxOrders) : OMCancelStale(done)
    \/ ClockTick

SpecOrders == InitOrders /\ [][NextOrders]_vars

(***************************************************************************)
(* SpecLimiter: RateLimiter.acquire and reset called from two threads.     *)
(* A timestamp is kept as its age, the time since time.monotonic() gave    *)
(* it; an age past the window is kept as time_window + 1.  requests[1] is  *)
(* the left end of the deque.  grants holds the ages, up to time_window,   *)
(* of the grants made since the last reset.                                *)
(***************************************************************************)
limiterFrame == <<running, dry_run, pc, venueVars, pendingOrders, aged,
                  pendingEntry, pendingExit,
                  lastPositions, signals, opps, tradeVars, scannerVars,
                  stopRequested, entryMarked, last, orderTimeVars, retryVars,
                  handlerVars, pageVars, fnVars, phasesDone, gateway>>

\* The states of a thread in which it holds the lock.
InLock == {"sleeping", "append", "clear"}

\* acquire: the loop that drops the timestamps older than the window.
RECURSIVE Purge(_)
Purge(reqs) ==
    IF reqs # <<>> /\ Head(reqs) > time_window THEN Purge(Tail(reqs)) ELSE reqs

\* A wait that outlasts the oldest timestamp by one more unit.
SleepPastWindow(oldest) == time_window + 1 - oldest

\* acquire: sleep_time = (oldest + time_window) - now, oldest given as an age.
SleepTime(oldest) == time_window - oldest

\* A thread calls acquire() and waits for the lock.
AcquireCall(t) ==
    /\ thr[t] = "idle"
    /\ Len(requests) < MaxQueue
    /\ thr' = [thr EXCEPT ![t] = "waiting"]
    /\ slept' = [slept EXCEPT ![t] = 0]
    /\ UNCHANGED <<requests, lock, sleepLeft, grants, limiterFrame>>

\* acquire: the lock is taken, the old timestamps dropped and, at capacity,
\* the sleep begun.
AcquireEnter(t) ==
    /\ thr[t] = "waiting"
    /\ lock = 0
    /\ lock' = t
    /\ requests' = Purge(requests)
    /\ IF Len(requests') >= max_requests /\ SleepTime(Head(requests')) > 0
       THEN /\ thr' = [thr EXCEPT ![t] = "sleeping"]
            /\ sleepLeft' = [sleepLeft EXCEPT ![t] = SleepTime(Head(requests'))]
            /\ slept' = [slept EXCEPT ![t] = @ + 1]
       ELSE /\ thr' = [thr EXCEPT ![t] = "append"]
            /\ UNCHANGED <<sleepLeft, slept>>
    /\ UNCHANGED <<grants, limiterFrame>>

\* acquire: time.sleep returns, the old timestamps are dropped again.
AcquireWake(t) ==
    /\ thr[t] = "sleeping"
    /\ sleepLeft[t] = 0
    /\ requests' = Purge(requests)
    /\ thr' = [thr EXCEPT ![t] = "append"]
    /\ UNCHANGED <<lock, sleepLeft, slept, grants, limiterFrame>>

\* acquire: the request is recorded, the lock released; acquire returns.
AcquireAppend(t) ==
    /\ thr[t] = "append"
    /\ requests' = Append(requests, 0)
    /\ grants' = Append(grants, 0)
    /\ lock' = 0
    /\ thr' = [thr EXCEPT ![t] = "idle"]
    /\ UNCHANGED <<sleepLeft, slept, limiterFrame>>

\* reset: the lock is taken.
ResetEnter(t) ==
    /\ thr[t] = "idle"
    /\ lock = 0
    /\ lock' = t
    /\ thr' = [thr EXCEPT ![t] = "clear"]
    /\ UNCHANGED <<requests, sleepLeft, slept, grants, limiterFrame>>

\* reset: the deque is cleared, the lock released.
ResetClear(t) ==
    /\ thr[t] = "clear"
    /\ requests' = <<>>
    /\ grants' = <<>>
    /\ lock' = 0
    /\ thr' = [thr EXCEPT ![t] = "idle"]
    /\ UNCHANGED <<sleepLeft, slept, limiterFrame>>

\* One unit of time passes.
LimiterTick ==
    /\ requests' = [i \in 1..Len(requests) |->
                       IF requests[i] > time_window THEN requests[i]
                       ELSE requests[i] + 1]
    /\ grants' = [i \in 1..Len(SelectSeq(grants, LAMBDA g : g < time_window)) |->
                     SelectSeq(grants, LAMBDA g : g < time_window)[i] + 1]
    /\ sleepLeft' = [t \in Threads |->
                        IF sleepLeft[t] > 0 THEN sleepLeft[t] - 1 ELSE 0]
    /\ UNCHANGED <<lock, thr, slept, limiterFrame>>

InitLimiter ==
    /\ running = FALSE
    /\ dry_run = FALSE
    /\ pc = "idle"
    /\ venuePos = {}
    /\ Constructed

NextLimiter ==
    \/ \E t \in Threads : AcquireCall(t)
    \/ \E t \in Threads : AcquireEnter(t)
    \/ \E t \in Threads : AcquireWake(t)
    \/ \E t \in Threads : AcquireAppend(t)
    \/ \E t \in Threads : ResetEnter(t)
    \/ \E t \in Threads : ResetClear(t)
    \/ LimiterTick

SpecLimiter == InitLimiter /\ [][NextLimiter]_vars

\* Time passes, a thread in the lock goes on, and a thread waiting for the
\* lock gets it if it is free again and again.
LimiterFairness ==
    /\ WF_vars(LimiterTick)
    /\ \A t \in Threads :
          /\ WF_vars(AcquireWake(t))
          /\ WF_vars(AcquireAppend(t))
          /\ WF_vars(ResetClear(t))
          /\ SF_vars(AcquireEnter(t))

SpecLimiterLive == SpecLimiter /\ LimiterFairness

(***************************************************************************)
(* SpecRetry: a call of a function wrapped by with_retry, attempt by       *)
(* attempt.  A retry_after that was not supplied (None) is written 0.      *)
(***************************************************************************)
retryRest == <<running, dry_run, pc, venueVars, pendingOrders, aged,
               pendingEntry, pendingExit, lastPositions, signals, opps,
               tradeVars, scannerVars, stopRequested, entryMarked, last,
               orderTimeVars, limiterVars, handlerVars, pageVars, fnVars,
               phasesDone>>
retryFrame == <<retryRest, gateway>>

\* RateLimitError.__init__: the value used when none is supplied.
DefaultRetryAfter == 60

\* The retry_after values a rate-limit error is raised with; 0 is None.
SuppliedRetryAfter == {0, 2, 7}

\* RateLimitError.__init__: self.retry_after = retry_after or 60.
RetryAfterOf(supplied) == IF supplied # 0 THEN supplied ELSE DefaultRetryAfter

Min(a, b) == IF a <= b THEN a ELSE b

\* wrapper: delay = e.retry_after or min(base_delay * (2**attempt), max_delay).
Delay(retry_after, k) ==
    IF retry_after # 0 THEN retry_after ELSE Min(base_delay * (2 ^ k), max_delay)

\* A wrapper that sleeps after the last attempt as well.
RetryAfterLastAttempt(k) == k <= max_retries

\* wrapper: if attempt < max_retries.
ShouldRetry(k) == k < max_retries

\* The wrapped function is called.
RetryCall ==
    /\ retryPc \in {"idle", "done"}
    /\ retryPc' = "calling"
    /\ attempt' = 0
    /\ calls' = 0
    /\ sleeps' = <<>>
    /\ retryResult' = "none"
    /\ UNCHANGED retryFrame

\* An attempt returns: the wrapper returns its result.
AttemptReturns ==
    /\ retryPc = "calling"
    /\ calls' = calls + 1
    /\ retryResult' = "returned"
    /\ retryPc' = "done"
    /\ UNCHANGED <<attempt, sleeps, retryFrame>>

\* An attempt raises an error that is not a RateLimitError: it passes
\* through the wrapper.
AttemptRaisesOther ==
    /\ retryPc = "calling"
    /\ calls' = calls + 1
    /\ retryResult' = "raised_other"
    /\ retryPc' = "done"
    /\ UNCHANGED <<attempt, sleeps, retryFrame>>

\* An attempt raises RateLimitError(supplied): the wrapper sleeps and goes
\* round the loop, or raises.
AttemptRateLimited(supplied) ==
    /\ retryPc = "calling"
    /\ calls' = calls + 1
    /\ IF ShouldRetry(attempt)
       THEN /\ sleeps' = Append(sleeps,
                                [k |-> attempt, supplied |-> supplied,
                                 delay |-> Delay(RetryAfterOf(supplied), attempt)])
            /\ IF attempt + 1 \in 0..max_retries
               THEN /\ attempt' = attempt + 1
                    /\ UNCHANGED <<retryPc, retryResult>>
               ELSE /\ retryResult' = "raised_rate_limit"
                    /\ retryPc' = "done"
                    /\ UNCHANGED attempt
       ELSE /\ retryResult' = "raised_rate_limit"
            /\ retryPc' = "done"
            /\ UNCHANGED <<attempt, sleeps>>
    /\ UNCHANGED retryFrame

InitRetry ==
    /\ running = FALSE
    /\ dry_run = FALSE
    /\ pc = "idle"
    /\ venuePos = {}
    /\ Constructed

NextRetry ==
    \/ RetryCall
    \/ AttemptReturns
    \/ AttemptRaisesOther
    \/ \E supplied \in SuppliedRetryAfter : AttemptRateLimited(supplied)

SpecRetry == InitRetry /\ [][NextRetry]_vars

(***************************************************************************)
(* SpecLoop: TradingBot._run_loop with its handlers; each phase of an      *)
(* iteration either completes or raises.                                   *)
(***************************************************************************)
loopRest == <<dry_run, venueVars, pendingOrders, aged, pendingEntry,
              pendingExit, lastPositions, signals, opps, tradeVars,
              scannerVars, entryMarked, orderTimeVars, limiterVars, retryVars,
              pageVars, fnVars, gateway>>
loopFrame == <<loopRest, phasesDone>>

\* An iteration that scans before it looks at exits and stale orders.
PhasesScanFirst == <<"scan_and_enter", "check_exits", "cancel_stale_orders",
                     "log_status", "sleep">>

\* The steps inside the try block of one iteration, in order.
LoopPhases == <<"check_exits", "cancel_stale_orders", "scan_and_enter",
                "log_status", "sleep">>

\* The position of a phase in the iteration.
PhaseIndex(p) == CHOOSE i \in 1..Len(LoopPhases) : LoopPhases[i] = p

\* What a phase can raise: RateLimitError, AuthenticationError,
\* KeyboardInterrupt, any other Exception.
ErrorKinds == {"rate_limit", "auth", "interrupt", "other"}

\* _run_loop: time.sleep(5) of the last handler.
ErrorPause == 5

\* A loop that stops on every error but a rate limit.
StopsUnlessRateLimit(kind) == kind # "rate_limit"

\* _run_loop: the handlers that call self.stop().
Stops(kind) == kind \in {"auth", "interrupt"}

\* _run_loop: the wait of the handler of an error that does not stop the bot.
HandlerWait(kind, retry_after) ==
    IF kind = "rate_limit" THEN retry_after ELSE ErrorPause

\* start(): _running is set and the loop entered.
LoopStart ==
    /\ pc = "idle"
    /\ running' = TRUE
    /\ pc' = "top"
    /\ UNCHANGED <<stopRequested, last, handlerVars, loopFrame>>

\* while self._running: a new iteration starts, or the loop ends.
LoopTest ==
    /\ pc = "top"
    /\ IF running
       THEN /\ iterations < MaxIterations
            /\ iterations' = iterations + 1
            /\ pc' = LoopPhases[1]
            /\ phasesDone' = <<>>
       ELSE /\ pc' = "stopped"
            /\ UNCHANGED <<iterations, phasesDone>>
    /\ UNCHANGED <<running, stopRequested, last, loopWait, loopRest>>

\* A phase completes; after the last one the loop goes back to its test.
PhaseOk ==
    /\ pc \in Range(LoopPhases)
    /\ pc' = IF PhaseIndex(pc) < Len(LoopPhases)
             THEN LoopPhases[PhaseIndex(pc) + 1] ELSE "top"
    /\ phasesDone' = Append(phasesDone, pc)
    /\ UNCHANGED <<running, stopRequested, last, handlerVars, loopRest>>

\* A phase raises; the handler stops the bot or begins its wait.  supplied
\* is the retry_after a RateLimitError was raised with.
PhaseRaises(kind, supplied) ==
    /\ pc \in Range(LoopPhases)
    /\ last' = Call("handler", kind, {}, PhaseIndex(pc))
    /\ IF Stops(kind)
       THEN /\ running' = FALSE
            /\ stopRequested' = TRUE
            /\ pc' = "top"
            /\ UNCHANGED loopWait
       ELSE /\ loopWait' = HandlerWait(kind, RetryAfterOf(supplied))
            /\ pc' = "handler_wait"
            /\ UNCHANGED <<running, stopRequested>>
    /\ UNCHANGED <<iterations, loopFrame>>

\* The handler's time.sleep returns.
HandlerWaitDone ==
    /\ pc = "handler_wait"
    /\ pc' = "top"
    /\ loopWait' = 0
    /\ UNCHANGED <<running, stopRequested, last, iterations, loopFrame>>

\* stop(), called from a signal handler while the loop runs.
StopSignal ==
    /\ running
    /\ running' = FALSE
    /\ stopRequested' = TRUE
    /\ UNCHANGED <<pc, last, handlerVars, loopFrame>>

InitLoop ==
    /\ running = FALSE
    /\ dry_run = FALSE
    /\ pc = "idle"
    /\ venuePos = {}
    /\ Constructed

NextLoop ==
    \/ LoopStart
    \/ LoopTest
    \/ PhaseOk
    \/ \E kind \in ErrorKinds, supplied \in SuppliedRetryAfter :
         PhaseRaises(kind, supplied)
    \/ HandlerWaitDone
    \/ StopSignal

SpecLoop == InitLoop /\ [][NextLoop]_vars

(***************************************************************************)
(* SpecCalls: the control loop of SpecLoop with the venue calls of each    *)
(* phase; a call can be rejected by the venue for failed authentication.   *)
(***************************************************************************)
\* The venue calls made during an iteration.
VenueCallSites == {"get_positions", "get_orderbook", "get_markets",
                   "place_order", "cancel_order"}

\* The venue calls each phase of an iteration makes.
PhaseCalls(phase) ==
    CASE phase = "check_exits" -> {"get_positions", "place_order"}
      [] phase = "cancel_stale_orders" -> {"cancel_order"}
      [] phase = "scan_and_enter" -> {"get_positions", "get_markets",
                                      "get_orderbook", "place_order"}
      [] OTHER -> {}

\* What becomes of the venue's rejection on its way to _run_loop: the kind
\* of error the loop's handlers see, or "none" when a caller below the loop
\* has turned it into a value.
ReachesLoopAs(site) ==
    CASE site = "get_positions" -> "none"
      [] site = "get_orderbook" -> "none"
      [] site = "get_markets" -> "other"
      [] site = "place_order" -> "none"
      [] site = "cancel_order" -> "none"

\* A venue call of the current phase is rejected for failed authentication.
VenueCallRejected(site) ==
    /\ pc \in Range(LoopPhases)
    /\ site \in PhaseCalls(pc)
    /\ last' = Call(site, "auth_rejected", {}, PhaseIndex(pc))
    /\ IF ReachesLoopAs(site) = "none"
       THEN UNCHANGED <<pc, running, stopRequested, loopWait>>
       ELSE IF Stops(ReachesLoopAs(site))
            THEN /\ running' = FALSE
                 /\ stopRequested' = TRUE
                 /\ pc' = "top"
                 /\ UNCHANGED loopWait
            ELSE /\ loopWait' = HandlerWait(ReachesLoopAs(site), DefaultRetryAfter)
                 /\ pc' = "handler_wait"
                 /\ UNCHANGED <<running, stopRequested>>
    /\ UNCHANGED <<iterations, loopFrame>>

NextCalls ==
    \/ LoopStart
    \/ LoopTest
    \/ PhaseOk
    \/ \E kind \in ErrorKinds, supplied \in SuppliedRetryAfter :
         PhaseRaises(kind, supplied)
    \/ \E site \in VenueCallSites : VenueCallRejected(site)
    \/ HandlerWaitDone
    \/ StopSignal

SpecCalls == InitLoop /\ [][NextCalls]_vars

(***************************************************************************)
(* SpecStop: the control loop of SpecLoop with stop() called at any time   *)
(* after start, any number of times; every phase and every wait ends.      *)
(***************************************************************************)
\* A stop() that only asks the scanner to stop.
StopScannerOnly ==
    /\ pc # "idle"
    /\ stopRequested' = TRUE
    /\ UNCHANGED <<running, pc, last, handlerVars, loopFrame>>

\* TradingBot.stop, called while the loop runs or after it.
Stop ==
    /\ pc # "idle"
    /\ running' = FALSE
    /\ stopRequested' = TRUE
    /\ UNCHANGED <<pc, last, handlerVars, loopFrame>>

NextStop ==
    \/ LoopStart
    \/ LoopTest
    \/ PhaseOk
    \/ \E kind \in ErrorKinds, supplied \in SuppliedRetryAfter :
         PhaseRaises(kind, supplied)
    \/ HandlerWaitDone
    \/ Stop

\* The loop's thread goes on: a phase ends, a wait ends, the test is made.
LoopFairness ==
    /\ WF_vars(LoopTest)
    /\ WF_vars(PhaseOk)
    /\ WF_vars(HandlerWaitDone)

SpecStop == InitLoop /\ [][NextStop]_vars /\ LoopFairness

(***************************************************************************)
(* SpecPages: MarketScanner.scan_iter page by page and market by market,   *)
(* with stop() arriving at any moment.  A cursor is a number, None is 0;   *)
(* the venue answers the request for cursor c with a page and the next     *)
(* cursor of a chain of chainLen pages.                                    *)
(***************************************************************************)
pagesFrame == <<running, dry_run, pc, venueVars, pendingOrders, aged,
                pendingEntry, pendingExit, lastPositions, signals, opps,
                tradeVars, existingPositions, existingEvents, passedTickers,
                examined, entryMarked, orderTimeVars, limiterVars, retryVars,
                handlerVars, fnVars, phasesDone, gateway>>

\* The checks a market goes through before its orderbook is asked for, in
\* the order scan_iter and quick_filter make them.
CheapStages == <<"existing_position", "existing_event", "category", "in_play",
                 "no_bids", "volume", "close_time", "probability">>

\* The cursor the venue returns with the page asked for with cursor c.
VenueNext(c, len) == IF c + 1 < len THEN c + 1 ELSE 0

\* A scan that goes on although it was asked to stop.
PollIgnoresFlag(flag) == FALSE

\* scan_iter: while not self._stop_requested.
PollEnds(flag) == flag

\* A scan that asks for a page again although no cursor came back.
CursorNeverEnds(cursor) == FALSE

\* scan_iter: if not cursor: break.
CursorEnds(cursor) == cursor = 0

\* A scan that asks for the orderbook whatever the threshold.
AlwaysFetchesBook(threshold) == TRUE

\* scan_iter: if self.settings.liquidity_threshold_usd > 0.
FetchesBook(threshold) == threshold > 0

\* scan_iter is started; len is the venue's chain during this scan.
PScanStart(len, threshold) ==
    /\ scanPc = "idle"
    /\ scanPc' = "poll"
    /\ scanCursor' = 0
    /\ chainLen' = len
    /\ liquidity_threshold_usd' = threshold
    /\ pageRequests' = <<>>
    /\ pageLeft' = 0
    /\ yielded' = <<>>
    /\ flagAtStart' = stopRequested
    /\ last' = Call("scan_iter", "started", {}, 0)
    /\ UNCHANGED <<bookLog, stopRequested, pagesFrame>>

\* scan_iter: the test of the while loop.
PPoll ==
    /\ scanPc = "poll"
    /\ scanPc' = IF PollEnds(stopRequested) THEN "idle" ELSE "fetch"
    /\ UNCHANGED <<scanCursor, chainLen, liquidity_threshold_usd, pageRequests,
                   pageLeft, yielded, flagAtStart, bookLog, last, stopRequested,
                   pagesFrame>>

\* scan_iter: get_markets returns a page of size markets and the next
\* cursor; an empty page ends the scan.
PFetch(size) ==
    /\ scanPc = "fetch"
    /\ pageRequests' = Append(pageRequests, scanCursor)
    /\ scanCursor' = VenueNext(scanCursor, chainLen)
    /\ pageLeft' = size
    /\ scanPc' = IF size = 0 THEN "idle" ELSE "page"
    /\ last' = Call("get_markets", "ok", {}, size)
    /\ UNCHANGED <<chainLen, liquidity_threshold_usd, yielded, flagAtStart,
                   bookLog, stopRequested, pagesFrame>>

\* scan_iter: get_markets raises; the error leaves scan_iter.
PFetchRaises ==
    /\ scanPc = "fetch"
    /\ pageRequests' = Append(pageRequests, scanCursor)
    /\ scanPc' = "idle"
    /\ last' = Call("get_markets", "raised", {}, 0)
    /\ UNCHANGED <<scanCursor, chainLen, liquidity_threshold_usd, pageLeft,
                   yielded, flagAtStart, bookLog, stopRequested, pagesFrame>>

\* scan_iter: one market of the page.  stage is the first cheap check the
\* market fails ("none": it passes them all), book what get_orderbook does,
\* verdict what evaluate does.
PExamine(stage, book, verdict) ==
    /\ scanPc = "page"
    /\ pageLeft > 0
    /\ pageLeft' = pageLeft - 1
    /\ IF stage # "none"
       THEN /\ bookLog' = [stage |-> stage, fetches |-> 0, book |-> "none",
                           result |-> "skipped"]
            /\ UNCHANGED yielded
       ELSE IF FetchesBook(liquidity_threshold_usd) /\ book = "raise"
            THEN /\ bookLog' = [stage |-> stage, fetches |-> 1, book |-> "none",
                                result |-> "error"]
                 /\ UNCHANGED yielded
            ELSE /\ bookLog' = [stage |-> stage,
                                fetches |-> IF FetchesBook(liquidity_threshold_usd)
                                            THEN 1 ELSE 0,
                                book |-> IF FetchesBook(liquidity_threshold_usd)
                                         THEN "fetched" ELSE "empty",
                                result |-> verdict]
                 /\ yielded' = IF verdict = "opportunity"
                               THEN Append(yielded, TkH) ELSE yielded
    /\ UNCHANGED <<scanPc, scanCursor, chainLen, liquidity_threshold_usd,
                   pageRequests, flagAtStart, last, stopRequested, pagesFrame>>

\* scan_iter: the page is done; without a cursor the scan ends.
PPageEnd ==
    /\ scanPc = "page"
    /\ pageLeft = 0
    /\ scanPc' = IF CursorEnds(scanCursor) THEN "idle" ELSE "poll"
    /\ UNCHANGED <<scanCursor, chainLen, liquidity_threshold_usd, pageRequests,
                   pageLeft, yielded, flagAtStart, bookLog, last, stopRequested,
                   pagesFrame>>

\* TradingBot.stop sets the scanner's flag, at any moment.
PRequestStop ==
    /\ ~stopRequested
    /\ stopRequested' = TRUE
    /\ UNCHANGED <<scanPc, scanCursor, chainLen, liquidity_threshold_usd,
                   pageRequests, pageLeft, yielded, flagAtStart, bookLog, last,
                   pagesFrame>>

InitPages ==
    /\ running = FALSE
    /\ dry_run = FALSE
    /\ pc = "idle"
    /\ venuePos = {}
    /\ Constructed

NextPages ==
    \/ \E len \in 1..MaxPages, threshold \in {0, 1} : PScanStart(len, threshold)
    \/ PPoll
    \/ \E size \in 0..PageSize : PFetch(size)
    \/ PFetchRaises
    \/ \E stage \in Range(CheapStages) \cup {"none"}, book \in {"ok", "raise"},
          verdict \in Verdicts : PExamine(stage, book, verdict)
    \/ PPageEnd
    \/ PRequestStop

SpecPages == InitPages /\ [][NextPages]_vars

\* The scan's own steps go on: each call returns, each market is processed.
PagesFairness ==
    /\ WF_vars(PPoll)
    /\ WF_vars(\E size \in 0..PageSize : PFetch(size))
    /\ WF_vars(\E stage \in Range(CheapStages) \cup {"none"},
                  book \in {"ok", "raise"}, verdict \in Verdicts :
                  PExamine(stage, book, verdict))
    /\ WF_vars(PPageEnd)

SpecPagesLive == SpecPages /\ PagesFairness

(***************************************************************************)
(* SpecPhases: the iterations of _run_loop with the Order Manager's        *)
(* operations made where the phases make them: exit orders in              *)
(* _check_exits, cancellations in _cancel_stale_orders, entry orders in    *)
(* _scan_and_enter.  An operation that raises is PhaseRaises.              *)
(***************************************************************************)
\* The phase each Order Manager operation is called from.
PhaseOf(op) ==
    CASE op = "place_exit_order" -> "check_exits"
      [] op = "cancel_stale_orders" -> "cancel_stale_orders"
      [] op = "place_entry_order" -> "scan_and_enter"

\* What the venue does with the orders of SpecPhases: it lets one rest,
\* refuses it, or has closed the market.
PhaseOutcomes == {"resting", "failed", "market_closed"}

\* _check_exits: execute_exit places an exit order, and the call returns.
ExitPhasePlaces(outcome) ==
    /\ pc = PhaseOf("place_exit_order")
    /\ outcome \in VenueStatuses \cup Catches("sell")
    /\ OMPlace("sell", TkH, outcome)

\* _cancel_stale_orders.
CancelPhase(done) ==
    /\ pc = PhaseOf("cancel_stale_orders")
    /\ OMCancelStale(done)

\* _scan_and_enter: place_entry_order for a signal, and the call returns.
EntryPhasePlaces(outcome) ==
    /\ pc = PhaseOf("place_entry_order")
    /\ outcome \in VenueStatuses \cup Catches("buy")
    /\ OMPlace("buy", TkH, outcome)

\* _run_loop: time.sleep until the next scan; a second of it passes.
SleepPasses ==
    /\ pc = "sleep"
    /\ ClockTick

NextPhases ==
    \/ LoopStart
    \/ LoopTest
    \/ PhaseOk
    \/ \E kind \in ErrorKinds, supplied \in SuppliedRetryAfter :
         PhaseRaises(kind, supplied)
    \/ HandlerWaitDone
    \/ StopSignal
    \/ \E outcome \in PhaseOutcomes : ExitPhasePlaces(outcome)
    \/ \E done \in SUBSET (1..MaxOrders) : CancelPhase(done)
    \/ \E outcome \in PhaseOutcomes : EntryPhasePlaces(outcome)
    \/ SleepPasses

SpecPhases == InitLoop /\ [][NextPhases]_vars

(***************************************************************************)
(* SpecFilters: MarketFilters.evaluate applied to markets and orderbooks   *)
(* as KalshiClient builds them.  Prices are cents; an optional price is    *)
(* <<>> for None and <<p>> for p; the probability thresholds are given in  *)
(* hundredths, so that price / 100 is compared with threshold / 100.       *)
(***************************************************************************)
fnFrame == <<running, dry_run, pc, venueVars, pendingOrders, aged, pendingEntry,
             pendingExit, lastPositions, signals, opps, tradeVars, scannerVars,
             stopRequested, entryMarked, last, orderTimeVars, limiterVars,
             retryVars, handlerVars, pageVars, phasesDone, gateway>>

\* evaluate: the hard cap, never buy above 90c.
PriceCap == 90

\* passes_liquidity, evaluate: calculate_liquidity(depth_cents=5).
DepthCents == 5

\* The prices of the inputs.
Prices == {0, 50, 80, 90, 91}

OptPrices == {<<>>} \cup {<<p>> : p \in Prices}

\* OrderBookLevel of one contract.
Level(p) == [price |-> p, quantity |-> 1]

\* KalshiClient._convert_orderbook: the YES asks sorted by rising price, the
\* YES bids by falling price.
Books ==
    {[yes_bids |-> b, yes_asks |-> a] :
        b \in {<<>>, <<Level(80)>>},
        a \in {s \in UNION {[1..n -> {Level(p) : p \in Prices}] : n \in 0..MaxLevels} :
                  \A i \in 1..Len(s), j \in 1..Len(s) :
                     i < j => s[i].price <= s[j].price}}

\* KalshiClient._convert_market: yes_price and no_price are the bids, else
\* the ask or 50.
ConvertMarket(yes_bid, yes_ask, no_bid, volume, in_category) ==
    [yes_bid |-> yes_bid, yes_ask |-> yes_ask, no_bid |-> no_bid, no_ask |-> <<>>,
     yes_price |-> IF yes_bid # <<>> THEN yes_bid[1]
                   ELSE IF yes_ask # <<>> /\ yes_ask[1] # 0 THEN yes_ask[1] ELSE 50,
     no_price |-> IF no_bid # <<>> THEN no_bid[1] ELSE 50,
     volume |-> volume, in_category |-> in_category]

Markets ==
    {ConvertMarket(yes_bid, yes_ask, no_bid, volume, in_category) :
        yes_bid \in OptPrices, yes_ask \in OptPrices, no_bid \in {<<>>, <<50>>},
        volume \in {0, 2}, in_category \in BOOLEAN}

\* TradingSettings as MarketFilters.__init__ reads them.
FilterSettings ==
    [liquidity_threshold_cents : {0, 100}, probability_threshold : {50, 80},
     max_probability_threshold : {90, 99}]

\* Market.has_liquidity.
HasLiquidity(market) ==
    \/ market.yes_bid # <<>> /\ market.yes_bid[1] > 0
    \/ market.no_bid # <<>> /\ market.no_bid[1] > 0

RECURSIVE SumNear(_, _, _)
\* OrderBook.calculate_liquidity: price * quantity of the levels within
\* depth of the best one.
SumNear(levels, best, depth) ==
    IF levels = <<>> THEN 0
    ELSE LET l == Head(levels)
             d == IF l.price >= best THEN l.price - best ELSE best - l.price
         IN (IF d <= depth THEN l.price * l.quantity ELSE 0)
            + SumNear(Tail(levels), best, depth)

\* OrderBook.calculate_liquidity.
CalculateLiquidity(book, depth) ==
    (IF book.yes_bids # <<>>
     THEN SumNear(book.yes_bids, book.yes_bids[1].price, depth) ELSE 0)
    + (IF book.yes_asks # <<>>
       THEN SumNear(book.yes_asks, book.yes_asks[1].price, depth) ELSE 0)

\* MarketFilters.passes_liquidity; volume * (yes_price + no_price) / 2 is
\* compared with the threshold.
PassesLiquidity(market, book, settings) ==
    LET liquidity == CalculateLiquidity(book, DepthCents)
    IN IF liquidity = 0 /\ HasLiquidity(market)
       THEN \/ settings.liquidity_threshold_cents = 0
            \/ market.volume * (market.yes_price + market.no_price)
                 >= 2 * settings.liquidity_threshold_cents
       ELSE liquidity >= settings.liquidity_threshold_cents

\* probability_threshold <= price / 100 <= max_probability_threshold.
InBand(price, settings) ==
    /\ settings.probability_threshold <= price
    /\ price <= settings.max_probability_threshold

\* MarketFilters.passes_probability: Side.YES or None.
PassesProbability(market, settings) ==
    IF InBand(market.yes_price, settings) THEN "yes"
    ELSE IF market.yes_ask # <<>> /\ InBand(market.yes_ask[1], settings)
         THEN "yes" ELSE "none"

\* An entry price that falls back on the market's price, the bid.
EntryPriceOrBid(market, book, side) ==
    IF book.yes_asks # <<>> THEN <<book.yes_asks[1].price>>
    ELSE <<market.yes_price>>

\* MarketFilters._get_entry_price: the best price of the book, else the
\* market's ask if it is not None and not 0.
GetEntryPrice(market, book, side) ==
    IF side = "yes"
    THEN IF book.yes_asks # <<>> THEN <<book.yes_asks[1].price>>
         ELSE IF market.yes_ask # <<>> /\ market.yes_ask[1] # 0
              THEN market.yes_ask ELSE <<>>
    ELSE market.no_ask

\* MarketFilters.evaluate: <<>> for None, else the opportunity.
Evaluate(market, book, settings) ==
    IF ~market.in_category THEN <<>>
    ELSE IF ~PassesLiquidity(market, book, settings) THEN <<>>
    ELSE LET side == PassesProbability(market, settings)
             entry == GetEntryPrice(market, book, side)
         IN IF side = "none" THEN <<>>
            ELSE IF entry = <<>> THEN <<>>
            ELSE IF entry[1] > PriceCap THEN <<>>
            ELSE IF entry[1] >= 100 \/ entry[1] < 1 THEN <<>>
            ELSE IF ~InBand(entry[1], settings) THEN <<>>
            ELSE <<[recommended_side |-> side, entry_price |-> entry[1],
                    probability |-> entry[1]]>>

\* The caller has taken the result of the call.
FnDone ==
    /\ fnArg # <<>>
    /\ fnArg' = <<>>
    /\ fnRes' = <<>>
    /\ UNCHANGED fnFrame

\* evaluate is called.
EvaluateCall(market, book, settings) ==
    /\ fnArg = <<>>
    /\ fnArg' = [op |-> "evaluate", market |-> market, book |-> book,
                 settings |-> settings]
    /\ fnRes' = Evaluate(market, book, settings)
    /\ UNCHANGED fnFrame

InitFilters ==
    /\ running = FALSE
    /\ dry_run = FALSE
    /\ pc = "idle"
    /\ venuePos = {}
    /\ Constructed

NextFilters ==
    \/ /\ fnArg = <<>>
       /\ \E market \in Markets, book \in Books, settings \in FilterSettings :
             EvaluateCall(market, book, settings)
    \/ FnDone

SpecFilters == InitFilters /\ [][NextFilters]_vars

(***************************************************************************)
(* SpecSizer: PositionSizer.calculate_contracts.  Amounts are cents; the   *)
(* position percentages are given in hundredths.                           *)
(***************************************************************************)
\* The portfolio values and entry prices of the inputs.
PortfolioValues == {-100, 0, 1, 100, 1000, 5000}
EntryPrices == {0, 1, 50, 80, 90, 99}

\* TradingSettings as PositionSizer.__init__ reads them.
SizerSettings ==
    [min_position_pct : {1, 10}, max_position_pct : {1, 10, 50},
     min_contracts : 1..MaxMinContracts]

\* A sizing that does not raise the count to the minimum.
SizeWithoutMinimum(portfolio_value, entry_price, settings) ==
    IF portfolio_value <= 0 \/ entry_price <= 0 THEN 0
    ELSE (portfolio_value * settings.max_position_pct) \div (100 * entry_price)

\* PositionSizer.calculate_contracts: int(max_spend / entry_price), raised
\* to min_contracts.
CalculateContracts(portfolio_value, entry_price, settings) ==
    IF portfolio_value <= 0 \/ entry_price <= 0 THEN settings.min_contracts
    ELSE LET contracts == (portfolio_value * settings.max_position_pct)
                             \div (100 * entry_price)
         IN IF contracts >= settings.min_contracts
            THEN contracts ELSE settings.min_contracts

\* calculate_contracts is called.
CalculateContractsCall(portfolio_value, entry_price, settings) ==
    /\ fnArg = <<>>
    /\ fnArg' = [op |-> "calculate_contracts", portfolio_value |-> portfolio_value,
                 entry_price |-> entry_price, settings |-> settings]
    /\ fnRes' = <<CalculateContracts(portfolio_value, entry_price, settings)>>
    /\ UNCHANGED fnFrame

NextSizer ==
    \/ /\ fnArg = <<>>
       /\ \E portfolio_value \in PortfolioValues, entry_price \in EntryPrices,
             settings \in SizerSettings :
             CalculateContractsCall(portfolio_value, entry_price, settings)
    \/ FnDone

SpecSizer == InitFilters /\ [][NextSizer]_vars

(***************************************************************************)
(* SpecEntry: HighProbabilityStrategy.evaluate_entry.                      *)
(***************************************************************************)
\* A validation that looks at the upper limit only.
ValidateMaxOnly(contracts, entry_price, portfolio_value, settings) ==
    ~(100 * contracts * entry_price > portfolio_value * settings.max_position_pct)

\* A validation that looks at the lower limit only.
ValidateMinOnly(contracts, entry_price, portfolio_value, settings) ==
    ~(100 * contracts * entry_price < portfolio_value * settings.min_position_pct)

\* PositionSizer.validate_position.
ValidatePosition(contracts, entry_price, portfolio_value, settings) ==
    /\ ~(100 * contracts * entry_price > portfolio_value * settings.max_position_pct)
    /\ ~(100 * contracts * entry_price < portfolio_value * settings.min_position_pct)

\* The opportunities handed to evaluate_entry.
Opportunities ==
    [ticker : {"H", "L"}, recommended_side : {"yes"}, entry_price : EntryPrices \ {0}]

\* HighProbabilityStrategy.evaluate_entry: <<>> for None, else the signal.
EvaluateEntry(opportunity, portfolio_value, settings) ==
    LET contracts == CalculateContracts(portfolio_value, opportunity.entry_price,
                                        settings)
    IN IF contracts <= 0 THEN <<>>
       ELSE IF ~ValidatePosition(contracts, opportunity.entry_price,
                                 portfolio_value, settings)
            THEN <<>>
            ELSE <<[ticker |-> opportunity.ticker,
                    side |-> opportunity.recommended_side,
                    entry_price |-> opportunity.entry_price,
                    contracts |-> contracts]>>

\* evaluate_entry is called.
EvaluateEntryCall(opportunity, portfolio_value, settings) ==
    /\ fnArg = <<>>
    /\ fnArg' = [op |-> "evaluate_entry", opportunity |-> opportunity,
                 portfolio_value |-> portfolio_value, settings |-> settings]
    /\ fnRes' = EvaluateEntry(opportunity, portfolio_value, settings)
    /\ UNCHANGED fnFrame

NextEntry ==
    \/ /\ fnArg = <<>>
       /\ \E opportunity \in Opportunities, portfolio_value \in PortfolioValues,
             settings \in SizerSettings :
             EvaluateEntryCall(opportunity, portfolio_value, settings)
    \/ FnDone

SpecEntry == InitFilters /\ [][NextEntry]_vars

\* SpecSizing: calculate_contracts called directly and through
\* evaluate_entry.
NextSizing ==
    \/ /\ fnArg = <<>>
       /\ \E portfolio_value \in PortfolioValues, entry_price \in EntryPrices,
             settings \in SizerSettings :
             CalculateContractsCall(portfolio_value, entry_price, settings)
    \/ /\ fnArg = <<>>
       /\ \E opportunity \in Opportunities, portfolio_value \in PortfolioValues,
             settings \in SizerSettings :
             EvaluateEntryCall(opportunity, portfolio_value, settings)
    \/ FnDone

SpecSizing == InitFilters /\ [][NextSizing]_vars

(***************************************************************************)
(* SpecExitRule: HighProbabilityStrategy.evaluate_exit.  profit_target and *)
(* stop_loss are given in thousandths; stop_loss is <<>> when none is      *)
(* configured.                                                             *)
(***************************************************************************)
\* The positions handed to evaluate_exit.
ExitPositions ==
    [ticker : {"H"}, side : {"yes", "no"}, contracts : {0, 1, 2},
     average_entry_price : {0, 50, 80}, current_price : {40, 45, 72, 80, 85, 90},
     volume : {0, 100}]

\* TradingSettings as HighProbabilityStrategy reads them.
ExitSettings ==
    [profit_target : {65, 125}, stop_loss : {<<>>, <<100>>},
     stop_loss_min_volume : {0, 100}]

\* Position.entry_cost and Position.unrealized_pnl.
EntryCost(position) == position.average_entry_price * position.contracts
UnrealizedPnl(position) ==
    position.current_price * position.contracts - EntryCost(position)

\* Position.unrealized_pnl_percent >= bound / 1000; the percentage is 0 when
\* the entry cost is 0.
PnlAtLeast(position, bound) ==
    IF EntryCost(position) = 0 THEN 0 >= bound
    ELSE 1000 * UnrealizedPnl(position) >= bound * EntryCost(position)

\* Position.unrealized_pnl_percent <= bound / 1000.
PnlAtMost(position, bound) ==
    IF EntryCost(position) = 0 THEN 0 <= bound
    ELSE 1000 * UnrealizedPnl(position) <= bound * EntryCost(position)

\* A stop-loss that does not look at the market's volume.
StopLossIgnoringVolume(position, settings) ==
    /\ settings.stop_loss # <<>>
    /\ PnlAtMost(position, 0 - settings.stop_loss[1])

\* evaluate_exit: the stop-loss rule.
StopLossApplies(position, settings) ==
    /\ settings.stop_loss # <<>>
    /\ PnlAtMost(position, 0 - settings.stop_loss[1])
    /\ position.volume >= settings.stop_loss_min_volume

\* evaluate_exit: the ExitSignal it builds.
ExitSignalOf(position, reason) ==
    [ticker |-> position.ticker, side |-> position.side,
     contracts |-> position.contracts, exit_price |-> position.current_price,
     reason |-> reason]

\* HighProbabilityStrategy.evaluate_exit: <<>> for None, else the signal.
EvaluateExit(position, settings) ==
    IF PnlAtLeast(position, settings.profit_target)
    THEN <<ExitSignalOf(position, "profit_target")>>
    ELSE IF StopLossApplies(position, settings)
         THEN <<ExitSignalOf(position, "stop_loss")>>
         ELSE <<>>

\* evaluate_exit is called.
EvaluateExitCall(position, settings) ==
    /\ fnArg = <<>>
    /\ fnArg' = [op |-> "evaluate_exit", position |-> position,
                 settings |-> settings]
    /\ fnRes' = EvaluateExit(position, settings)
    /\ UNCHANGED fnFrame

NextExitRule ==
    \/ /\ fnArg = <<>>
       /\ \E position \in ExitPositions, settings \in ExitSettings :
             EvaluateExitCall(position, settings)
    \/ FnDone

SpecExitRule == InitFilters /\ [][NextExitRule]_vars

(***************************************************************************)
(* SpecGateway: the operations of KalshiClient, each wrapped by            *)
(* rate_limited outside with_retry(max_retries=3).  gateway counts, for    *)
(* the operation in progress, the calls of RateLimiter.acquire() and the   *)
(* requests sent to the venue.                                             *)
(***************************************************************************)
\* The most pages of fills the venue returns to one get_fills call.
MaxFillPages == 5

\* The most gateway operations of a run.
MaxOperations == 3

\* The methods of KalshiClient decorated with @rate_limited.
GatewayOps == {"get_balance", "get_markets", "get_market", "get_orderbook",
               "get_positions", "get_fills", "place_order", "cancel_order",
               "get_orders"}

\* The numbers of venue requests one attempt of an operation can send:
\* get_fills sends one per page, get_market a second one when the first
\* cannot be parsed, every other operation one.
RequestsOf(op) ==
    CASE op = "get_fills" -> 1..MaxFillPages
      [] op = "get_market" -> {1, 2}
      [] OTHER -> {1}

\* place_order: the only operation that raises RateLimitError.
RaisesRateLimit(op) == op = "place_order"

\* The ways an attempt of an operation can end.
AttemptOutcomes(op) ==
    {"returns", "raises_other"} \cup
        (IF RaisesRateLimit(op) THEN {"rate_limited"} ELSE {})

\* Decorators applied the other way round: acquire() before every attempt.
AcquiresPerAttempt(point) == IF point = "attempt" THEN 1 ELSE 0

\* rate_limited.wrapper: _rate_limiter.acquire(), then the function it
\* wraps, which is with_retry's wrapper: acquire() is called on entry and
\* not inside the retry loop.
AcquiresAt(point) == IF point = "call" THEN 1 ELSE 0

\* rate_limited.wrapper is entered for an operation.
GatewayCall(op) ==
    /\ retryPc \in {"idle", "done"}
    /\ gateway.finished < MaxOperations
    /\ gateway' = [gateway EXCEPT !.op = op,
                                  !.acquires = AcquiresAt("call"),
                                  !.requests = 0]
    /\ retryPc' = "calling"
    /\ attempt' = 0
    /\ calls' = 0
    /\ sleeps' = <<>>
    /\ retryResult' = "none"
    /\ UNCHANGED retryRest

\* with_retry's wrapper makes one attempt, which sends n requests and then
\* returns, raises, or raises RateLimitError().
GatewayAttempt(n, outcome) ==
    /\ retryPc = "calling"
    /\ n \in RequestsOf(gateway.op)
    /\ outcome \in AttemptOutcomes(gateway.op)
    /\ calls' = calls + 1
    /\ IF outcome = "rate_limited" /\ ShouldRetry(attempt)
       THEN /\ sleeps' = Append(sleeps,
                                [k |-> attempt, supplied |-> 0,
                                 delay |-> Delay(RetryAfterOf(0), attempt)])
            /\ attempt' = attempt + 1
            /\ UNCHANGED <<retryPc, retryResult>>
       ELSE /\ retryResult' = CASE outcome = "returns" -> "returned"
                                [] outcome = "raises_other" -> "raised_other"
                                [] OTHER -> "raised_rate_limit"
            /\ retryPc' = "done"
            /\ UNCHANGED <<attempt, sleeps>>
    /\ gateway' = [gateway EXCEPT
                     !.acquires = @ + AcquiresAt("attempt"),
                     !.requests = @ + n,
                     !.finished = IF retryPc' = "done" THEN @ + 1 ELSE @]
    /\ UNCHANGED retryRest

NextGateway ==
    \/ \E op \in GatewayOps : GatewayCall(op)
    \/ \E n \in 1..MaxFillPages, outcome \in {"returns", "raises_other", "rate_limited"} :
          GatewayAttempt(n, outcome)

SpecGateway == InitRetry /\ [][NextGateway]_vars

(***************************************************************************)
(* SpecStats: DailyStats.print_summary over the trades of the day: those   *)
(* read back from trades.log (prior_trades) and those of this session.     *)
(* Prices are cents.  A timestamp read from the log carries no time zone   *)
(* (datetime.strptime); a timestamp taken by TradeRecord carries UTC       *)
(* (datetime.now(timezone.utc)).                                           *)
(***************************************************************************)
\* The most trades of a day, and the most of them read from the log.
MaxStatTrades == 3
MaxPriorTrades == 2

StatTickers == {"A", "B"}

\* The sizes and prices of the trades: <<contracts, price>>.
TradeLots == {<<10, 40>>, <<5, 50>>, <<12, 70>>}

\* TradeRecord, with the timestamp s; aware: the timestamp has a time zone.
TradeRecords(stamps, aware) ==
    {[ticker |-> k, action |-> a, contracts |-> l[1], price |-> l[2],
      timestamp |-> s, aware |-> aware] :
        k \in StatTickers, a \in {"entry", "exit"}, l \in TradeLots, s \in stamps}

\* _load_today_trades: the lines of today in file order, each with the
\* second its line was written at.
PriorRecords == TradeRecords({1, 2}, FALSE)

\* record_entry and record_exit: TradeRecord stamps the trade with the
\* current time, so the i-th trade of the session is not older than those
\* before it.
SessionRecords == TradeRecords({0}, TRUE)

Stamped(trades) ==
    [i \in 1..Len(trades) |-> [trades[i] EXCEPT !.timestamp = i]]

SeqsUpTo(S, n) == UNION {[1..k -> S] : k \in 0..n}

\* DailyStats.all_trades
AllTrades(prior, session) == prior \o Stamped(session)

\* sorted(..., key=timestamp) compares a timestamp without a time zone with
\* one that has it: TypeError.
SortRaises(trades) ==
    \E i, j \in 1..Len(trades) : trades[i].aware # trades[j].aware

\* t put after every trade of sorted that is not newer than it.
RECURSIVE InsertByTime(_, _)
InsertByTime(sorted, t) ==
    IF sorted = <<>> THEN <<t>>
    ELSE IF Head(sorted).timestamp <= t.timestamp
         THEN <<Head(sorted)>> \o InsertByTime(Tail(sorted), t)
         ELSE <<t>> \o sorted

\* sorted(all_trades, key=lambda x: x.timestamp): a stable sort.
RECURSIVE SortedTrades(_)
SortedTrades(trades) ==
    IF trades = <<>> THEN <<>>
    ELSE InsertByTime(SortedTrades(SubSeq(trades, 1, Len(trades) - 1)),
                      trades[Len(trades)])

\* A matching that drops the oldest lot once an exit has touched it.
RECURSIVE MatchDropsLot(_, _, _, _)
MatchDropsLot(queue, exit_contracts, matched_cost, matched_contracts) ==
    IF exit_contracts > 0 /\ queue # <<>>
    THEN LET entry == Head(queue)
             take == Min(exit_contracts, entry.remaining)
         IN MatchDropsLot(Tail(queue), exit_contracts - take,
                          matched_cost + entry.price * take,
                          matched_contracts + take)
    ELSE [queue |-> queue, matched_cost |-> matched_cost,
          matched_contracts |-> matched_contracts]

\* _compute_round_trips: while exit_contracts > 0 and queue.
RECURSIVE MatchFifo(_, _, _, _)
MatchFifo(queue, exit_contracts, matched_cost, matched_contracts) ==
    IF exit_contracts > 0 /\ queue # <<>>
    THEN LET entry == Head(queue)
             take == Min(exit_contracts, entry.remaining)
         IN MatchFifo(IF entry.remaining - take = 0
                      THEN Tail(queue)
                      ELSE <<[entry EXCEPT !.remaining = @ - take]>>
                              \o Tail(queue),
                      exit_contracts - take,
                      matched_cost + entry.price * take,
                      matched_contracts + take)
    ELSE [queue |-> queue, matched_cost |-> matched_cost,
          matched_contracts |-> matched_contracts]

\* _compute_round_trips: the loop over the sorted trades, from the i-th.
RECURSIVE Reconcile(_, _, _, _)
Reconcile(trades, i, entry_queues, round_trips) ==
    IF i > Len(trades)
    THEN [entry_queues |-> entry_queues, round_trips |-> round_trips]
    ELSE LET t == trades[i]
         IN IF t.action = "entry"
            THEN Reconcile(trades, i + 1,
                           [entry_queues EXCEPT ![t.ticker] =
                              Append(@, [price |-> t.price,
                                         remaining |-> t.contracts])],
                           round_trips)
            ELSE LET m == MatchFifo(entry_queues[t.ticker], t.contracts, 0, 0)
                 IN Reconcile(trades, i + 1,
                              [entry_queues EXCEPT ![t.ticker] = m.queue],
                              IF m.matched_contracts > 0
                              THEN Append(round_trips,
                                     [ticker |-> t.ticker,
                                      contracts |-> m.matched_contracts,
                                      entry_cost |-> m.matched_cost,
                                      exit_revenue |-> t.price * m.matched_contracts,
                                      pnl |-> t.price * m.matched_contracts
                                                 - m.matched_cost])
                              ELSE round_trips)

\* DailyStats._compute_round_trips; a ticker without entries has the empty
\* queue.
ComputeRoundTrips(all_trades) ==
    Reconcile(SortedTrades(all_trades), 1, [k \in StatTickers |-> <<>>], <<>>)

\* sum(...) over a list of numbers.
RECURSIVE SumSeq(_)
SumSeq(s) == IF s = <<>> THEN 0 ELSE Head(s) + SumSeq(Tail(s))

\* print_summary: sum(t.price * t.contracts for t in entries).
TotalEntryCost(all_trades) ==
    SumSeq([i \in 1..Len(all_trades) |->
              IF all_trades[i].action = "entry"
              THEN all_trades[i].price * all_trades[i].contracts ELSE 0])

\* DailyStats.print_summary: the figures it reports, or the error of the
\* sort.
PrintSummary(prior, session) ==
    LET all_trades == AllTrades(prior, session)
    IN IF SortRaises(all_trades)
       THEN [status |-> "raised", round_trips |-> <<>>,
             entry_queues |-> [k \in StatTickers |-> <<>>],
             realized_pnl |-> 0, unrealized_cost |-> 0]
       ELSE LET r == ComputeRoundTrips(all_trades)
            IN [status |-> "returned", round_trips |-> r.round_trips,
                entry_queues |-> r.entry_queues,
                realized_pnl |->
                    SumSeq([i \in 1..Len(r.round_trips) |-> r.round_trips[i].pnl]),
                unrealized_cost |->
                    TotalEntryCost(all_trades)
                      - SumSeq([i \in 1..Len(r.round_trips) |->
                                  r.round_trips[i].entry_cost])]

\* print_summary is called.
PrintSummaryCall(prior, session) ==
    /\ fnArg = <<>>
    /\ fnArg' = [op |-> "print_summary", prior |-> prior, session |-> session]
    /\ fnRes' = PrintSummary(prior, session)
    /\ UNCHANGED fnFrame

NextStats ==
    \/ /\ fnArg = <<>>
       /\ \E prior \in SeqsUpTo(PriorRecords, MaxPriorTrades) :
          \E session \in SeqsUpTo(SessionRecords, MaxStatTrades - Len(prior)) :
             PrintSummaryCall(prior, session)
    \/ FnDone

SpecStats == InitFilters /\ [][NextStats]_vars

(***************************************************************************)
(* SpecCategories: CategoryMatcher.  A text is a sequence of tokens: the   *)
(* syllables of the ticker, written without a space between them, then the *)
(* words of the title and of the venue's category.  A token records the    *)
(* keywords found in it (has), whether it is written in capitals (upper)   *)
(* and whether white space precedes it (space).  A pattern is a sequence   *)
(* of keywords (parts) with what the regular expression allows between two *)
(* of them (gaps): "joined" nothing, "space" \s+, "opt" \s* or one         *)
(* character, "any" .*, "between" \s+.*\s+.                                *)
(***************************************************************************)
Syl(w) == [has |-> {w}, upper |-> TRUE, space |-> FALSE]
Wd(w) == [has |-> {w}, upper |-> FALSE, space |-> TRUE]
\* A word in which a shorter keyword is found as well.
WdHas(w, inner) == [has |-> {w, inner}, upper |-> FALSE, space |-> TRUE]

\* r"(?i)w"
Ci(w) == [anchor |-> FALSE, ci |-> TRUE, wb |-> FALSE, parts |-> <<w>>,
          gaps |-> <<>>]
\* r"(?i)w1<gap>w2..."
CiSeq(parts, gaps) == [anchor |-> FALSE, ci |-> TRUE, wb |-> FALSE,
                       parts |-> parts, gaps |-> gaps]
\* r"(?i)\b...\b"
CiWord(parts, gaps) == [anchor |-> FALSE, ci |-> TRUE, wb |-> TRUE,
                        parts |-> parts, gaps |-> gaps]
\* r"KX..." : capitals, in one word
Cs(parts) == [anchor |-> FALSE, ci |-> FALSE, wb |-> FALSE, parts |-> parts,
              gaps |-> [i \in 1..(Len(parts) - 1) |-> "joined"]]
\* r"^KX..."
Pre(parts) == [anchor |-> TRUE, ci |-> FALSE, wb |-> FALSE, parts |-> parts,
               gaps |-> [i \in 1..(Len(parts) - 1) |-> "joined"]]

\* CategoryMatcher.CATEGORY_PATTERNS, in the order of the dict.
CATEGORY_PATTERNS ==
    <<[category |-> "college_basketball",
       patterns |-> {Pre(<<"kx", "ncaamb", "game">>),
                     Pre(<<"kx", "ncaamb", "spread">>),
                     Pre(<<"kx", "ncaamb", "total">>)}],
      [category |-> "basketball",
       patterns |-> {Pre(<<"kx", "ncaamb", "game">>),
                     Pre(<<"kx", "ncaamb", "spread">>),
                     Pre(<<"kx", "ncaamb", "total">>),
                     Pre(<<"kx", "nba", "game">>),
                     Pre(<<"kx", "nba", "spread">>),
                     Pre(<<"kx", "nba", "total">>),
                     [anchor |-> TRUE, ci |-> FALSE, wb |-> FALSE,
                      parts |-> <<"kx", "nba", "game">>,
                      gaps |-> <<"joined", "any">>]}],
      [category |-> "player_props",
       patterns |-> {Pre(<<"kx", "nba">>), Pre(<<"kx", "ncaamb">>),
                     CiSeq(<<"points", "scored">>, <<"space">>),
                     CiSeq(<<"wins", "by", "over", "points">>,
                           <<"space", "space", "any">>),
                     CiWord(<<"nba">>, <<>>),
                     CiWord(<<"ncaa", "basketball">>, <<"opt">>),
                     Ci("basketball"),
                     CiSeq(<<"all", "star">>, <<"opt">>)}],
      [category |-> "crypto",
       patterns |-> {Ci("btc"), Ci("bitcoin"), Ci("eth"), Ci("ethereum"),
                     Ci("crypto"), Ci("doge"), Ci("sol"), Ci("xrp")}],
      [category |-> "weather",
       patterns |-> {Ci("weather"), Ci("temperature"), Ci("rain"), Ci("snow"),
                     Ci("hurricane"), Ci("storm"), Ci("celsius"),
                     Ci("fahrenheit")}],
      [category |-> "politics",
       patterns |-> {Ci("election"), Ci("president"), Ci("congress"),
                     Ci("senate"), Ci("house"), Ci("vote"), Ci("poll"),
                     Ci("governor"), Ci("democrat"), Ci("republican"),
                     Ci("biden"), Ci("trump")}],
      [category |-> "economics",
       patterns |-> {Ci("fed"), Ci("fomc"), Ci("rate"), Ci("inflation"),
                     Ci("cpi"), Ci("gdp"), Ci("jobs"), Ci("unemployment"),
                     Ci("payroll"), Ci("treasury")}],
      [category |-> "sports",
       patterns |-> {Ci("nfl"), Ci("nba"), Ci("mlb"), Ci("nhl"),
                     CiSeq(<<"super", "bowl">>, <<"opt">>),
                     CiSeq(<<"world", "series">>, <<"opt">>),
                     Ci("championship"), Ci("playoffs"), Ci("esports"),
                     CiSeq(<<"table", "tennis">>, <<"opt">>),
                     Ci("points"), Ci("rebounds"), Ci("assists"),
                     CiSeq(<<"win", "map">>, <<"space">>), Ci("winner"),
                     CiSeq(<<"over", "#">>, <<"space">>),
                     CiSeq(<<"under", "#">>, <<"space">>),
                     Cs(<<"kx", "mv">>), Cs(<<"kx", "table", "tennis">>),
                     Cs(<<"kx", "cs2">>)}]>>

\* CategoryMatcher.EXCLUDE_PATTERNS
EXCLUDE_PATTERNS ==
    {Ci("mention"), Ci("tweet"), CiSeq(<<"post", "about">>, <<"space">>),
     CiSeq(<<"social", "media">>, <<"opt">>),
     CiSeq(<<"say", "on">>, <<"between">>),
     CiSeq(<<"truth", "social">>, <<"opt">>),
     Pre(<<"kx", "mv">>)}

\* The part j of the pattern is found at token i and the parts after it
\* follow as the gaps allow.
RECURSIVE MatchFrom(_, _, _, _)
MatchFrom(p, text, i, j) ==
    /\ i \in 1..Len(text)
    /\ p.parts[j] \in text[i].has
    /\ p.ci \/ text[i].upper
    /\ (p.wb /\ j = 1) => (i = 1 \/ text[i].space)
    /\ (p.wb /\ j = Len(p.parts)) => (i = Len(text) \/ text[i + 1].space)
    /\ j < Len(p.parts) =>
         \E k \in (i + 1)..Len(text) :
            /\ CASE p.gaps[j] = "joined" -> k = i + 1 /\ ~text[k].space
                 [] p.gaps[j] = "space" -> k = i + 1 /\ text[k].space
                 [] p.gaps[j] = "opt" -> k = i + 1
                 [] p.gaps[j] = "any" -> TRUE
                 [] OTHER -> k >= i + 2 /\ text[i + 1].space /\ text[k].space
            /\ MatchFrom(p, text, k, j + 1)

\* pattern.search(text_to_check)
Search(p, text) ==
    IF p.anchor THEN MatchFrom(p, text, 1, 1)
    ELSE \E i \in 1..Len(text) : MatchFrom(p, text, i, 1)

\* text_to_check = f"{market.ticker} {market.title} {market.category}"
TextToCheck(market) == market.ticker \o market.title \o market.category

\* The tickers, titles and venue categories of the markets examined.
CatTickers ==
    {<<Syl("kx"), Syl("ncaamb"), Syl("game")>>,
     <<Syl("kx"), Syl("nba"), Syl("game")>>,
     <<Syl("kx"), Syl("nba"), Syl("pts")>>,
     <<Syl("kx"), Syl("mv"), Syl("esports")>>,
     <<Syl("x"), Syl("kx"), Syl("mv")>>,
     <<Syl("kx"), Syl("btc")>>,
     <<Syl("kx"), Syl("highny")>>,
     <<Syl("kx"), Syl("fed")>>}

CatTitles ==
    {<<Wd("duke"), Wd("winner")>>,
     <<Wd("trump"), Wd("mention"), Wd("bitcoin")>>,
     <<Wd("points"), Wd("scored")>>,
     <<Wd("rain")>>,
     <<Wd("say"), Wd("it"), Wd("on")>>,
     <<WdHas("resolve", "sol"), Wd("rate")>>,
     <<Wd("other")>>}

CatFields == {<<>>, <<Wd("crypto")>>}

CatMarkets == [ticker : CatTickers, title : CatTitles, category : CatFields]

\* The targets asked for: a name, written in small letters or not.
CategoryNames ==
    {"all", "college_basketball", "basketball", "player_props", "crypto",
     "weather", "politics", "economics", "sports", "none"}
Targets == [name : CategoryNames, small : BOOLEAN]

\* target_category.lower()
Lower(target) == target.name

\* CategoryMatcher.is_excluded
IsExcluded(market) ==
    \E p \in EXCLUDE_PATTERNS : Search(p, TextToCheck(market))

\* A lookup that returns the last category that matches.
RECURSIVE LastCategory(_, _)
LastCategory(text, i) ==
    IF i > Len(CATEGORY_PATTERNS) THEN <<>>
    ELSE LET later == LastCategory(text, i + 1)
         IN IF later # <<>> THEN later
            ELSE IF \E p \in CATEGORY_PATTERNS[i].patterns : Search(p, text)
                 THEN <<CATEGORY_PATTERNS[i].category>>
                 ELSE <<>>

\* get_category: the loop over the categories from the i-th; <<>> is None.
RECURSIVE FirstCategory(_, _)
FirstCategory(text, i) ==
    IF i > Len(CATEGORY_PATTERNS) THEN <<>>
    ELSE IF \E p \in CATEGORY_PATTERNS[i].patterns : Search(p, text)
         THEN <<CATEGORY_PATTERNS[i].category>>
         ELSE FirstCategory(text, i + 1)

\* CategoryMatcher.get_category
GetCategory(market) == FirstCategory(TextToCheck(market), 1)

\* A match that lets the target 'all' through before it looks at the
\* exclusions.
MatchesAllFirst(market, target) ==
    IF Lower(target) = "all" THEN TRUE
    ELSE IF IsExcluded(market) THEN FALSE
    ELSE GetCategory(market) = <<Lower(target)>>

\* CategoryMatcher.matches_category
MatchesCategory(market, target) ==
    IF IsExcluded(market) THEN FALSE
    ELSE IF Lower(target) = "all" THEN TRUE
    ELSE GetCategory(market) = <<Lower(target)>>

\* matches_category is called.
MatchesCategoryCall(market, target) ==
    /\ fnArg = <<>>
    /\ fnArg' = [op |-> "matches_category", market |-> market, target |-> target]
    /\ fnRes' = <<MatchesCategory(market, target)>>
    /\ UNCHANGED fnFrame

\* get_category is called.
GetCategoryCall(market) ==
    /\ fnArg = <<>>
    /\ fnArg' = [op |-> "get_category", market |-> market]
    /\ fnRes' = GetCategory(market)
    /\ UNCHANGED fnFrame

NextCategories ==
    \/ /\ fnArg = <<>>
       /\ \E market \in CatMarkets, target \in Targets :
             MatchesCategoryCall(market, target)
    \/ /\ fnArg = <<>>
       /\ \E market \in CatMarkets : GetCategoryCall(market)
    \/ FnDone

SpecCategories == InitFilters /\ [][NextCategories]_vars

(***************************************************************************)
(* Claims about the Position Monitor, checked under SpecMonitor.           *)
(***************************************************************************)
\* What a ticker adds to the count count_positions has just returned.
Contribution(ticker, positions, pending) ==
    (IF ticker \in positions THEN 1 ELSE 0)
        + (IF ticker \in pending \ positions THEN 1 ELSE 0)

\* C5: get_positions returns the empty list and stores it when the venue
\* reports zero positions; when the venue's read fails it returns the
\* snapshot it held and leaves it as it was.
C5_EmptyIsTruthFailureKeepsSnapshot ==
    [][\A o \in ReadOutcomes :
          MonGetPositions(o) =>
              IF o = "ok"
              THEN venuePos = {} => (last'.ret = {} /\ lastPositions' = {})
              ELSE last'.ret = lastPositions /\ lastPositions' = lastPositions]_vars

\* C6 as stated: count_positions returns the positions of the read plus the
\* pending entries not in it, and every ticker marked by add_pending_entry
\* and not since unmarked by remove_pending_entry contributes exactly 1.
C6_MarkedContributesOne ==
    [][\A o \in ReadOutcomes :
          MonCountPositions(o) =>
              /\ last'.n = Cardinality(last'.ret)
                             + Cardinality(pendingEntry' \ last'.ret)
              /\ \A ticker \in entryMarked' :
                    Contribution(ticker, last'.ret, pendingEntry') = 1]_vars

\* C6: count_positions returns the positions of the read plus the pending
\* entries not in it; every ticker in the pending-entry set contributes
\* exactly 1, shown by the read or not; and a ticker leaves the pending-entry
\* set by remove_pending_entry or by a read that shows it.
C6_PendingContributesOne ==
    [][/\ \A o \in ReadOutcomes :
             MonCountPositions(o) =>
                 /\ last'.n = Cardinality(last'.ret)
                                + Cardinality(pendingEntry' \ last'.ret)
                 /\ last'.n = Cardinality(last'.ret \cup pendingEntry')
                 /\ \A ticker \in pendingEntry' :
                       Contribution(ticker, last'.ret, pendingEntry') = 1
       /\ \A ticker \in pendingEntry \ pendingEntry' :
             \/ RemovePendingEntry(ticker)
             \/ /\ last'.op \in {"get_positions", "count_positions",
                                 "get_position_tickers"}
                /\ ~ClientRaises(last'.res)
                /\ ticker \in ClientGetPositions(last'.res, venuePos)]_vars

\* C6 happens: a count over a position in the read and a pending entry not
\* in it, while another marked ticker has left the pending-entry set.
C6_Witness ==
    /\ last.op = "count_positions"
    /\ last.ret # {}
    /\ pendingEntry \ last.ret # {}
    /\ entryMarked \ pendingEntry # {}
    /\ last.n = Cardinality(last.ret) + Cardinality(pendingEntry \ last.ret)

(***************************************************************************)
(* Claims about the Exit Handler, checked under SpecExit.                  *)
(***************************************************************************)
\* C2: no exit order is placed for a ticker while the ticker is in the
\* pending-exit set.
C2_NoExitWhilePending ==
    [][\A ticker \in ExitTickers :
          ExitPlaced(ticker) => ticker \notin pendingExit]_vars

\* place_exit_order returned an order result: the Order Manager tracks a
\* new order.
ExitResultReturned == DOMAIN pendingOrders' # DOMAIN pendingOrders

\* C8: execute_exit adds the ticker to the pending-exit set and appends an
\* EXIT line to the ledger if and only if place_exit_order returned an order
\* result; otherwise the set and the ledger are unchanged.  In steps: a step
\* in which place_exit_order returns a result adds the order's ticker and
\* appends its EXIT line, and an execute_exit step without a result (called
\* directly, from execute_all_exits or from force_exit) changes neither.
C8_ExitRecordedIffResult ==
    [][IF ExitResultReturned
       THEN \E ticker \in ExitTickers :
               /\ ExitPlaced(ticker)
               /\ pendingExit' = pendingExit \cup {ticker}
               /\ ledger' = Append(ledger, <<"EXIT", ticker>>)
       ELSE \/ pendingExit' = pendingExit /\ ledger' = ledger
            \/ \A ticker \in ExitTickers, outcome \in ExitOutcomes :
                  /\ ~XExecuteExit(ticker, outcome)
                  /\ ~ExecuteAllStep(ticker, outcome)
                  /\ \A o \in ReadOutcomes : ~ForceExit(ticker, o, outcome)]_vars

\* C8 happens: of the two positions held, one exit went through and is
\* recorded in the set and in the ledger, and no signal is left to execute.
C8_Witness ==
    /\ Len(venueOrders) = 1
    /\ ledger = <<<<"EXIT", venueOrders[1].ticker>>>>
    /\ pendingExit = {venueOrders[1].ticker}
    /\ signals = {}
    /\ venuePos = ExitTickers
    /\ lastPositions = ExitTickers

\* C9: a ticker leaves the pending-exit set only in a cleanup and only when
\* the read of that cleanup does not show it; the cleanup removes every
\* ticker its read does not show; no other operation removes one.  In
\* steps: a cleanup on read outcome o (the loop's, or the one at the head of
\* execute_all_exits) leaves the set intersected with its read, and a step
\* after which a ticker is missing from the set is a cleanup.
C9_OnlyCleanupRemoves ==
    [][/\ \A o \in ReadOutcomes :
             \/ pendingExit' = pendingExit \cap GetPositions(o, venuePos, lastPositions)
             \/ /\ ~LoopCleanup(o)
                /\ \A o2 \in ReadOutcomes : ~ExecuteAllExits(o, o2, signals')
       /\ \/ pendingExit \subseteq pendingExit'
          \/ \E o \in ReadOutcomes : LoopCleanup(o)
          \/ \E o1 \in ReadOutcomes, o2 \in ReadOutcomes :
                ExecuteAllExits(o1, o2, signals')]_vars

\* C9 happens: of two tickers with an exit on record, a cleanup has removed
\* the one its read did not show and kept the one it showed.
C9_Witness ==
    \E t \in ExitTickers, u \in ExitTickers :
        /\ <<"EXIT", t>> \in Range(ledger)
        /\ <<"EXIT", u>> \in Range(ledger)
        /\ t \notin pendingExit
        /\ t \notin lastPositions
        /\ u \in pendingExit
        /\ u \in lastPositions

(***************************************************************************)
(* Claims about the Market Scanner, checked under SpecScan.                *)
(***************************************************************************)
\* C10: within one scan no two yielded opportunities share an event prefix,
\* none has the ticker or the event prefix of a ticker passed to
\* set_existing_positions, and every yielded ticker and its prefix are
\* claimed in the scanner's sets before the next market is examined.
C10_ScanYieldsDistinctEvents ==
    /\ \A i, j \in 1..Len(yielded) :
          i # j => GetEventPrefix(yielded[i]) # GetEventPrefix(yielded[j])
    /\ \A i \in 1..Len(yielded) :
          /\ yielded[i] \notin passedTickers
          /\ GetEventPrefix(yielded[i]) \notin EventsOf(passedTickers)
          /\ yielded[i] \in existingPositions
          /\ GetEventPrefix(yielded[i]) \in existingEvents

\* C10 happens: a scan after set_existing_positions has examined markets of
\* a held event and of a free one, and has yielded.
C10_Witness ==
    /\ passedTickers = {TkGX}
    /\ yielded = <<TkH>>
    /\ examined >= 3
    /\ scanPc = "page"

(***************************************************************************)
(* Claims about the Order Manager, checked under SpecOrders.               *)
(***************************************************************************)
\* C11: when the venue returns an order with status open, resting, filled
\* or executed, place_entry_order and place_exit_order add it to the
\* tracking map under its id and return it; for any other status they return
\* none and leave the map as it was.
C11_AcceptedStatusesTracked ==
    [][\/ Len(venueOrders') = Len(venueOrders)
       \/ \A action \in {"buy", "sell"}, status \in VenueStatuses :
             OMPlace(action, TkH, status) =>
                 LET id == Len(venueOrders) + 1
                 IN IF status \in {"open", "resting", "filled", "executed"}
                    THEN /\ DOMAIN pendingOrders' = DOMAIN pendingOrders \cup {id}
                         /\ pendingOrders'[id] = status
                         /\ \A j \in DOMAIN pendingOrders :
                               pendingOrders'[j] = pendingOrders[j]
                         /\ last'.res = "result"
                         /\ last'.ret = {id}
                    ELSE /\ pendingOrders' = pendingOrders
                         /\ last'.res = "none"]_vars

\* C11 happens: an order is tracked, and a later one came back with a status
\* outside the four and is not.
C11_Witness ==
    /\ last.res = "none"
    /\ Len(venueOrders) = 2
    /\ DOMAIN pendingOrders = {1}
    /\ pendingOrders[1] = "filled"

\* C12: an insufficient-funds, market-closed or order-failed error of the
\* venue is caught by place_entry_order and by place_exit_order: the call
\* returns none, the tracking map is unchanged and no order is issued again.
C12_VenueErrorsBecomeNone ==
    [][\A action \in {"buy", "sell"} :
          \A err \in {"insufficient_funds", "market_closed", "order_failed"} :
              OMPlace(action, TkH, err) =>
                  /\ last'.res = "none"
                  /\ pendingOrders' = pendingOrders
                  /\ venueOrders' = venueOrders]_vars

\* C13: cancel_stale_orders asks to cancel exactly the tracked orders in
\* status open whose age exceeds order_timeout_seconds; those whose
\* cancellation succeeds (the ids the call returns) are dropped, the others
\* stay tracked; an order whose age is at most the timeout is neither asked
\* about nor removed.
C13_CancelsOnlyStaleOpen ==
    [][\/ last'.op # "cancel_stale_orders"
       \/ ~OMCancelStale(last'.ret)
       \/ LET old == {id \in DOMAIN pendingOrders :
                         clock - createdAt[id] > order_timeout_seconds}
              open == {id \in DOMAIN pendingOrders : pendingOrders[id] = "open"}
          IN /\ cancelRequested' = old \cap open
             /\ last'.ret \subseteq cancelRequested'
             /\ DOMAIN pendingOrders' = DOMAIN pendingOrders \ last'.ret
             /\ \A id \in DOMAIN pendingOrders' :
                   pendingOrders'[id] = pendingOrders[id]
             /\ \A id \in DOMAIN pendingOrders \ old :
                   id \notin cancelRequested' /\ id \in DOMAIN pendingOrders']_vars

\* C13 happens: of two open orders, cancel_stale_orders has dropped the one
\* past the timeout and left the one exactly at it.
C13_Witness ==
    /\ last.op = "cancel_stale_orders"
    /\ last.ret = {1}
    /\ cancelRequested = {1}
    /\ DOMAIN pendingOrders = {2}
    /\ pendingOrders[2] = "open"
    /\ clock - createdAt[2] = order_timeout_seconds

\* C14: no order in the tracking map has a terminal status.
C14_TrackedOrdersOutstanding ==
    \A id \in DOMAIN pendingOrders :
        pendingOrders[id] \notin {"filled", "executed", "cancelled", "failed"}

(***************************************************************************)
(* Claims about the rate limiter, checked under SpecLimiter and            *)
(* SpecLimiterLive.                                                        *)
(***************************************************************************)
\* Every window of length time_window, taken without its older end, holds at
\* most max_requests grants.
WindowBound ==
    Cardinality({i \in DOMAIN grants : grants[i] < time_window}) <= max_requests

\* C15: acquire() grants at most max_requests times inside any window of
\* length time_window, also when a call arrives exactly time_window after the
\* oldest recorded grant.
C15_AtMostNGrantsPerWindow == WindowBound

\* C16: with acquire() and reset() called from several threads, at most one
\* thread is inside the lock, the timestamps of the deque that are inside
\* the window are exactly the grants made (one for each acquire() that
\* returned since the last reset, none lost, none twice), and the bound per
\* window holds for the grants of all callers together.
C16_ConcurrentCallersBounded ==
    /\ \A t \in Threads : thr[t] \in InLock => lock = t
    /\ SelectSeq(requests, LAMBDA a : a <= time_window) = grants
    /\ WindowBound

\* C17: every acquire() call returns: it sleeps at most once, for no longer
\* than time_window, and with the lock scheduled fairly every thread that
\* waits for the lock is granted its request.
C17_AcquireReturns ==
    /\ [](\A t \in Threads : slept[t] <= 1 /\ sleepLeft[t] <= time_window)
    /\ \A t \in Threads : (thr[t] = "waiting") ~> (thr[t] = "idle")

\* C17 happens: one thread has slept in acquire() and returned while the
\* other waits for the lock.
C17_Witness ==
    /\ slept[1] = 1
    /\ thr[1] = "idle"
    /\ thr[2] = "waiting"
    /\ Len(grants) > max_requests

(***************************************************************************)
(* Claims about the retry wrapper, checked under SpecRetry.                *)
(***************************************************************************)
\* C18: a call wrapped by with_retry invokes the operation at most
\* max_retries + 1 times; it returns on the first success and raises at once
\* on an error that is no rate-limit error, in both cases without a further
\* sleep or invocation; it re-raises the rate-limit error after
\* max_retries + 1 rate-limit errors in a row, having slept exactly
\* max_retries times.
C18_BoundedRetries ==
    /\ [](/\ calls <= max_retries + 1
          /\ retryResult = "raised_rate_limit" =>
                calls = max_retries + 1 /\ Len(sleeps) = max_retries
          /\ retryResult \in {"returned", "raised_other"} =>
                Len(sleeps) = calls - 1)
    /\ [][/\ AttemptReturns =>
               retryResult' = "returned" /\ retryPc' = "done" /\ sleeps' = sleeps
          /\ AttemptRaisesOther =>
               retryResult' = "raised_other" /\ retryPc' = "done" /\ sleeps' = sleeps
          /\ retryPc = "done" => calls' = calls \/ RetryCall
          /\ \A supplied \in SuppliedRetryAfter :
                AttemptRateLimited(supplied) /\ retryPc' = "calling" =>
                    Len(sleeps') = Len(sleeps) + 1]_vars

\* C18 happens: the wrapper has re-raised the rate-limit error after the
\* last attempt.
C18_Witness ==
    /\ retryResult = "raised_rate_limit"
    /\ retryPc = "done"
    /\ calls = max_retries + 1
    /\ Len(sleeps) = max_retries

\* C19: before the retry after the k-th rate-limit failure the wrapper
\* sleeps the retry_after the error was raised with if there was one, and
\* min(base_delay * 2^k, max_delay) if there was none.
C19_DelayIsRetryAfterOrBackoff ==
    \A i \in 1..Len(sleeps) :
        sleeps[i].delay = IF sleeps[i].supplied # 0
                          THEN sleeps[i].supplied
                          ELSE Min(base_delay * (2 ^ sleeps[i].k), max_delay)

(***************************************************************************)
(* Claims about the control loop's handlers, checked under SpecLoop.       *)
(***************************************************************************)
\* C20: an error raised in a phase that is neither an authentication error
\* nor a stop request does not end the loop: the iteration is abandoned, the
\* loop waits (the delay of the rate-limit error, or the fixed pause) and,
\* running still true, a new iteration starts; the loop ends only with
\* running false.
C20_ErrorsDoNotEndLoop ==
    /\ [](pc = "stopped" => ~running)
    /\ [][/\ \A kind \in {"rate_limit", "other"}, supplied \in SuppliedRetryAfter :
               PhaseRaises(kind, supplied) =>
                   /\ running' = running
                   /\ pc' = "handler_wait"
                   /\ loopWait' = IF kind = "rate_limit"
                                  THEN RetryAfterOf(supplied) ELSE 5
          /\ HandlerWaitDone => pc' = "top"
          /\ (LoopTest /\ running) =>
                pc' = "check_exits" /\ iterations' = iterations + 1]_vars

\* C20 happens: after an error in the scan that was no rate limit, the next
\* iteration has started with the bot still running.
C20_Witness ==
    /\ last.op = "handler"
    /\ last.res = "other"
    /\ last.n = 3
    /\ running
    /\ pc = "check_exits"
    /\ iterations = 2

(***************************************************************************)
(* Claims about venue calls inside the loop, checked under SpecCalls.      *)
(***************************************************************************)
\* C21: when a venue call of an iteration (positions read, orderbook or
\* market-list read, order placement or cancellation) fails with an
\* authentication error, the loop stops: running becomes false.
C21_AuthFailureStopsLoop ==
    [][\A site \in VenueCallSites : VenueCallRejected(site) => ~running']_vars

(***************************************************************************)
(* Claims about stopping, checked under SpecStop.                          *)
(***************************************************************************)
\* C22: stop() sets running false and the scanner's flag; after it the loop
\* starts no new iteration, neither flag is changed back, a further stop()
\* changes nothing, and the loop terminates.
C22_StopEndsLoop ==
    /\ [][/\ Stop => ~running' /\ stopRequested'
          /\ stopRequested =>
                ~running' /\ stopRequested' /\ iterations' = iterations]_vars
    /\ []((~running /\ stopRequested) => ~ENABLED <<Stop>>_vars)
    /\ (~running /\ pc # "idle") ~> (pc = "stopped")

\* C22 happens: stop() came in the middle of an iteration, no handler ran,
\* and the loop has ended.
C22_Witness ==
    /\ pc = "stopped"
    /\ stopRequested
    /\ ~running
    /\ iterations = 1
    /\ last.op = "init"

(***************************************************************************)
(* Claims about pagination and the stop flag, checked under SpecPages and  *)
(* SpecPagesLive.                                                          *)
(***************************************************************************)
\* C23 as stated: once the scanner's stop flag is set, no further page
\* request is issued.
C23_NoRequestOnceFlagSet ==
    [][stopRequested => Len(pageRequests') <= Len(pageRequests)]_vars

\* C23: the flag is polled before each page request: a poll that finds it
\* set ends the scan without a request, and a request issued with the flag
\* set is the one whose poll had already passed.  A flag set while a page is
\* processed leaves the rest of the page to be processed and is followed by
\* no request; a flag set before the scan starts makes the scan fetch
\* nothing and yield nothing.
C23_FlagPolledBeforeEachPage ==
    /\ [][/\ (PPoll /\ stopRequested) =>
               scanPc' = "idle" /\ pageRequests' = pageRequests
          /\ (stopRequested /\ Len(pageRequests') > Len(pageRequests)) =>
               scanPc = "fetch"
          /\ (stopRequested /\ scanPc = "page" /\ pageLeft > 0) =>
               scanPc' = "page" /\ pageLeft' = pageLeft - 1]_vars
    /\ [](flagAtStart => pageRequests = <<>> /\ yielded = <<>>)

\* C23 happens: the flag was set while the first page of a longer chain was
\* processed; the page was finished and the scan ended without another
\* request.
C23_Witness ==
    /\ stopRequested
    /\ ~flagAtStart
    /\ scanPc = "idle"
    /\ chainLen > 1
    /\ pageRequests = <<0>>
    /\ pageLeft = 0
    /\ last.op = "get_markets"
    /\ last.n = 2
    /\ yielded # <<>>

\* C25: every scan starts its pagination with no cursor, whatever cursor an
\* earlier scan was left with; each later request carries the next cursor
\* the venue returned with the page before; a scan whose requests return
\* ends exactly on an empty page, at the end of a page that came with no
\* next cursor, or at a poll that finds the stop flag set; a scan makes no
\* more requests than the venue's chain has pages and comes to its end.
C25_PaginationFollowsChain ==
    /\ [](\A i \in 1..Len(pageRequests) :
            IF i = 1 THEN pageRequests[i] = 0
            ELSE /\ pageRequests[i] # 0
                 /\ pageRequests[i] = VenueNext(pageRequests[i - 1], chainLen))
    /\ [](Len(pageRequests) <= chainLen)
    /\ [][/\ (scanPc = "idle" /\ scanPc' # "idle") =>
               scanCursor' = 0 /\ pageRequests' = <<>>
          /\ Len(pageRequests') > Len(pageRequests) =>
               pageRequests' = Append(pageRequests, scanCursor)
          /\ (scanPc # "idle" /\ scanPc' = "idle" /\ last'.res # "raised") <=>
               \/ /\ scanPc = "fetch" /\ scanPc' # "fetch"
                  /\ last'.res = "ok" /\ last'.n = 0
               \/ scanPc = "page" /\ scanPc' # "page" /\ scanCursor = 0
               \/ scanPc = "poll" /\ stopRequested /\ scanPc' # "poll"]_vars
    /\ (scanPc # "idle") ~> (scanPc = "idle")

\* C25 happens: a scan followed a chain of three pages to its end and
\* stopped there, unasked, after the page that came without a next cursor.
C25_Witness ==
    /\ scanPc = "idle"
    /\ ~stopRequested
    /\ chainLen = 3
    /\ pageRequests = <<0, 1, 2>>
    /\ scanCursor = 0
    /\ last.op = "get_markets"
    /\ last.n > 0

\* C26: for each market of a scan the orderbook is asked for at most once,
\* and only when the market passed the existing-exposure checks, the
\* category match and every cheap filter stage; with a liquidity threshold
\* of 0 no orderbook is asked for and a market that passed the cheap stages
\* is evaluated with an empty book.
C26_OrderbookAfterCheapStages ==
    [][pageLeft' < pageLeft =>
         /\ bookLog'.fetches <= 1
         /\ bookLog'.fetches = 1 => bookLog'.stage = "none"
         /\ bookLog'.stage # "none" => bookLog'.result = "skipped"
         /\ liquidity_threshold_usd = 0 =>
              /\ bookLog'.fetches = 0
              /\ bookLog'.stage = "none" =>
                   bookLog'.book = "empty" /\ bookLog'.result \in Verdicts
         /\ (liquidity_threshold_usd > 0 /\ bookLog'.stage = "none") =>
              bookLog'.fetches = 1]_vars

\* C26 happens: with a threshold of 0 a market passed every cheap stage and
\* was accepted on an empty book, without an orderbook read.
C26_Witness ==
    /\ liquidity_threshold_usd = 0
    /\ scanPc = "page"
    /\ bookLog.stage = "none"
    /\ bookLog.fetches = 0
    /\ bookLog.book = "empty"
    /\ bookLog.result = "opportunity"
    /\ yielded # <<>>

(***************************************************************************)
(* Claims about the order of the phases, checked under SpecPhases.         *)
(***************************************************************************)
\* C24: within one iteration the phases run in the order exit check,
\* stale-order cancellation, scan-and-enter, status log, sleep, one at a
\* time: while a phase runs, exactly the phases before it have completed in
\* this iteration, and a phase is completed only while it is the one
\* running; no entry order is placed before the exit check and the
\* stale-order cancellation of the same iteration have completed.
C24_PhasesInOrder ==
    /\ [](/\ pc = "check_exits" => phasesDone = <<>>
          /\ pc = "cancel_stale_orders" => phasesDone = <<"check_exits">>
          /\ pc = "scan_and_enter" =>
               phasesDone = <<"check_exits", "cancel_stale_orders">>
          /\ pc = "log_status" =>
               phasesDone = <<"check_exits", "cancel_stale_orders",
                              "scan_and_enter">>
          /\ pc = "sleep" =>
               phasesDone = <<"check_exits", "cancel_stale_orders",
                              "scan_and_enter", "log_status">>)
    /\ [][/\ phasesDone' # phasesDone =>
               \/ phasesDone' = <<>> /\ pc = "top" /\ pc' = "check_exits"
               \/ phasesDone' = Append(phasesDone, pc)
          /\ (\E outcome \in VenueStatuses \cup PlaceErrors :
                 OMPlace("buy", TkH, outcome)) =>
               phasesDone = <<"check_exits", "cancel_stale_orders">>]_vars

\* C24 happens: in the second iteration an entry order was placed and
\* accepted after that iteration's exit check and cancellation.
C24_Witness ==
    /\ pc = "scan_and_enter"
    /\ iterations = 2
    /\ phasesDone = <<"check_exits", "cancel_stale_orders">>
    /\ last.op = PlaceOp("buy")
    /\ last.res = "result"
    /\ \E i \in 1..Len(venueOrders) : venueOrders[i].action = "buy"

(***************************************************************************)
(* Claims about the filters and the strategy's functions, checked under    *)
(* SpecFilters, SpecSizer, SpecEntry and SpecExitRule.                     *)
(***************************************************************************)
\* C27: every opportunity evaluate returns has an entry price from 1 to 90
\* cents whose hundredth lies within the probability band, and that price
\* is the lowest YES ask of the book or, with no ask in the book, the
\* market's quoted YES ask; a market with no ask at all yields no
\* opportunity, whatever its bid.
C27_OpportunityPriceInBand ==
    fnArg # <<>> /\ fnArg.op = "evaluate" =>
      /\ fnRes # <<>> =>
           /\ 1 <= fnRes[1].entry_price /\ fnRes[1].entry_price <= 90
           /\ fnArg.settings.probability_threshold <= fnRes[1].entry_price
           /\ fnRes[1].entry_price <= fnArg.settings.max_probability_threshold
           /\ IF fnArg.book.yes_asks # <<>>
              THEN \A i \in 1..Len(fnArg.book.yes_asks) :
                      fnRes[1].entry_price <= fnArg.book.yes_asks[i].price
              ELSE fnArg.market.yes_ask = <<fnRes[1].entry_price>>
           /\ fnArg.book.yes_asks # <<>> =>
                \E i \in 1..Len(fnArg.book.yes_asks) :
                   fnRes[1].entry_price = fnArg.book.yes_asks[i].price
      /\ (fnArg.book.yes_asks = <<>> /\ fnArg.market.yes_ask = <<>>) => fnRes = <<>>

\* C27 happens: a market whose bid is outside the band and whose book has
\* no asks is accepted at its quoted ask.
C27_Witness ==
    /\ fnArg # <<>>
    /\ fnArg.op = "evaluate"
    /\ fnRes # <<>>
    /\ fnArg.book.yes_asks = <<>>
    /\ fnArg.market.yes_bid = <<50>>
    /\ fnArg.settings.probability_threshold = 80
    /\ fnRes[1].entry_price = 90

\* C28 as stated: for a positive portfolio value and a positive entry price
\* the cost of the returned count does not exceed max_position_pct of the
\* portfolio value, and the count is not below min_contracts.
C28_CostWithinMaxPosition ==
    (/\ fnArg # <<>> /\ fnArg.op = "calculate_contracts"
     /\ fnArg.portfolio_value > 0 /\ fnArg.entry_price > 0) =>
      /\ 100 * fnRes[1] * fnArg.entry_price
           <= fnArg.settings.max_position_pct * fnArg.portfolio_value
      /\ fnRes[1] >= fnArg.settings.min_contracts

\* C28: the returned count is never below min_contracts; for a positive
\* portfolio value and entry price it is the largest count whose cost stays
\* within max_position_pct of the portfolio value when that share pays for
\* min_contracts contracts, and min_contracts otherwise.
C28_LargestAffordableOrMinimum ==
    fnArg # <<>> /\ fnArg.op = "calculate_contracts" =>
      /\ fnRes[1] >= fnArg.settings.min_contracts
      /\ (fnArg.portfolio_value > 0 /\ fnArg.entry_price > 0) =>
           IF 100 * fnArg.settings.min_contracts * fnArg.entry_price
                <= fnArg.settings.max_position_pct * fnArg.portfolio_value
           THEN /\ 100 * fnRes[1] * fnArg.entry_price
                     <= fnArg.settings.max_position_pct * fnArg.portfolio_value
                /\ 100 * (fnRes[1] + 1) * fnArg.entry_price
                     > fnArg.settings.max_position_pct * fnArg.portfolio_value
           ELSE fnRes[1] = fnArg.settings.min_contracts

\* C28 happens: a tenth of a portfolio of 1000 cents buys two contracts at
\* 50 cents, above the minimum of one.
C28_Witness ==
    /\ fnArg # <<>>
    /\ fnArg.op = "calculate_contracts"
    /\ fnArg.portfolio_value = 1000
    /\ fnArg.entry_price = 50
    /\ fnArg.settings.max_position_pct = 10
    /\ fnArg.settings.min_contracts = 1
    /\ fnRes = <<2>>

\* C29: evaluate_entry returns a signal exactly when the sized count is
\* positive and its cost lies between min_position_pct and max_position_pct
\* of the portfolio value, and the signal has the opportunity's ticker, its
\* recommended side, the sized count and the opportunity's entry price.
C29_SignalIffSizedWithinLimits ==
    fnArg # <<>> /\ fnArg.op = "evaluate_entry" =>
      LET contracts == CalculateContracts(fnArg.portfolio_value,
                                          fnArg.opportunity.entry_price,
                                          fnArg.settings)
          notional == 100 * contracts * fnArg.opportunity.entry_price
      IN /\ fnRes # <<>> <=>
              /\ contracts > 0
              /\ fnArg.settings.min_position_pct * fnArg.portfolio_value <= notional
              /\ notional <= fnArg.settings.max_position_pct * fnArg.portfolio_value
         /\ fnRes # <<>> =>
              /\ fnRes[1].ticker = fnArg.opportunity.ticker
              /\ fnRes[1].side = fnArg.opportunity.recommended_side
              /\ fnRes[1].contracts = contracts
              /\ fnRes[1].entry_price = fnArg.opportunity.entry_price

\* C29 happens: a signal for five contracts at 90 cents, a cost between 1
\* and 10 hundredths of a portfolio of 5000 cents.
C29_Witness ==
    /\ fnArg # <<>>
    /\ fnArg.op = "evaluate_entry"
    /\ fnArg.portfolio_value = 5000
    /\ fnArg.settings.min_position_pct = 1
    /\ fnArg.settings.max_position_pct = 10
    /\ fnRes # <<>>
    /\ fnRes[1].contracts = 5
    /\ fnRes[1].entry_price = 90
    /\ fnRes[1].ticker = "L"

\* C30: evaluate_exit returns a profit_target signal exactly when the
\* unrealized profit share is at least profit_target; otherwise a stop_loss
\* signal exactly when a stop-loss is configured, the share is at most
\* -stop_loss and the volume is at least stop_loss_min_volume; otherwise
\* nothing; a signal has the position's ticker, side and whole contract
\* count and its current price.
C30_ProfitTargetThenStopLoss ==
    fnArg # <<>> /\ fnArg.op = "evaluate_exit" =>
      LET profit == PnlAtLeast(fnArg.position, fnArg.settings.profit_target)
          loss == /\ fnArg.settings.stop_loss # <<>>
                  /\ PnlAtMost(fnArg.position, 0 - fnArg.settings.stop_loss[1])
                  /\ fnArg.position.volume >= fnArg.settings.stop_loss_min_volume
      IN /\ (fnRes # <<>> /\ fnRes[1].reason = "profit_target") <=> profit
         /\ (fnRes # <<>> /\ fnRes[1].reason = "stop_loss") <=> (~profit /\ loss)
         /\ fnRes = <<>> <=> (~profit /\ ~loss)
         /\ fnRes # <<>> =>
              /\ fnRes[1].ticker = fnArg.position.ticker
              /\ fnRes[1].side = fnArg.position.side
              /\ fnRes[1].contracts = fnArg.position.contracts
              /\ fnRes[1].exit_price = fnArg.position.current_price

\* C30 happens: a stop_loss signal for both contracts of a position bought
\* at 80 and now at 72, a tenth down, in a market with enough volume.
C30_Witness ==
    /\ fnArg # <<>>
    /\ fnArg.op = "evaluate_exit"
    /\ fnArg.position.average_entry_price = 80
    /\ fnArg.position.current_price = 72
    /\ fnArg.position.volume = 100
    /\ fnArg.settings.stop_loss_min_volume = 100
    /\ fnRes # <<>>
    /\ fnRes[1].reason = "stop_loss"
    /\ fnRes[1].contracts = 2
    /\ fnRes[1].exit_price = 72

(***************************************************************************)
(* Further claims about the Position Monitor, checked under SpecMonitor.   *)
(***************************************************************************)
\* C34: after a successful get_positions() read no ticker is both in the
\* returned list and in the pending-entry set; a failed read leaves the
\* pending-entry set and the stored snapshot unchanged.
C34_ReadReconcilesPending ==
    [][/\ MonGetPositions("ok") => last'.ret \cap pendingEntry' = {}
       /\ \A o \in ReadOutcomes \ {"ok"} :
            MonGetPositions(o) =>
              pendingEntry' = pendingEntry /\ lastPositions' = lastPositions]_vars

(***************************************************************************)
(* Further claims about the control loop, checked under Spec.              *)
(***************************************************************************)
\* C36: cancel_stale_orders leaves the pending-entry set and the
\* pending-exit set as they are.  A ticker leaves the pending-entry set
\* only in a step whose positions read shows it, or in the entry attempt
\* on it whose placement returned no result; a ticker leaves the
\* pending-exit set only in the cleanup after a positions read.  So the
\* ticker of an order cancelled as stale stays pending until a positions
\* read changes that.
C36_StaleCancelKeepsPending ==
    [][/\ (pc = "cancel_stale" /\ pc' # pc) =>
            pendingEntry' = pendingEntry /\ pendingExit' = pendingExit
       /\ pendingEntry' = pendingEntry \/
            \A t \in pendingEntry \ pendingEntry' :
               \/ t \in venuePos
               \/ pc = "enter" /\ t \in opps /\ pendingOrders' = pendingOrders
       /\ pendingExit' = pendingExit \/
            \A t \in pendingExit \ pendingExit' :
               pc = "cleanup" /\ t \notin lastPositions']_vars

\* C36 happens: an entry order was cancelled as stale and its ticker is
\* still in the pending-entry set.
C36_Witness ==
    /\ pc = "scan_gate"
    /\ \E i \in 1..Len(venueOrders) :
          /\ venueOrders[i].state = "cancelled"
          /\ venueOrders[i].action = "buy"
          /\ i \notin DOMAIN pendingOrders
          /\ venueOrders[i].ticker \in pendingEntry

\* C38: in dry-run mode, over any number of iterations, no order is placed
\* and none is cancelled at the venue (no exit is executed, no entry is
\* attempted, no tracked order is there to cancel), the pending-entry set,
\* the pending-exit set and the order-tracking map stay empty and the trade
\* log stays empty; a would-be entry is added to the session's statistics
\* and to nothing else.
C38_DryRunPlacesNothing ==
    /\ [](dry_run =>
            /\ venueOrders = <<>>
            /\ pendingOrders = <<>>
            /\ pendingEntry = {}
            /\ pendingExit = {}
            /\ ledger = <<>>
            /\ pc # "execute_exit"
            /\ \A i \in 1..Len(sessionTrades) : sessionTrades[i][1] = "entry")
    /\ [][dry_run =>
            /\ dry_run'
            /\ ~(pc = "enter" /\ \E ticker \in Tickers, o \in ReadOutcomes,
                                    outcome \in PlaceOutcomes :
                                    EnterAttempt(ticker, o, outcome))
            /\ sessionTrades' # sessionTrades =>
                 /\ pc = "enter"
                 /\ \E ticker \in opps :
                       sessionTrades' = Append(sessionTrades, <<"entry", ticker>>)
                 /\ UNCHANGED <<venueVars, pendingOrders, pendingExit, ledger>>]_vars

\* C38 happens: a dry run has recorded two would-be entries and gone round
\* the loop, with nothing placed and nothing pending.
C38_Witness ==
    /\ dry_run
    /\ Len(sessionTrades) = 2
    /\ pc = "cancel_stale"
    /\ venuePos # {}
    /\ venueOrders = <<>>
    /\ pendingEntry = {}

(***************************************************************************)
(* Claims about the gateway operations, checked under SpecGateway.         *)
(***************************************************************************)
\* C37 as stated: every gateway operation calls acquire() exactly once,
\* before its first attempt, retries do not call it again, and the requests
\* an operation sends exceed its acquire() grants by at most max_retries.
C37_RequestsWithinRetries ==
    /\ [](gateway.op # "none" =>
            /\ gateway.acquires = 1
            /\ gateway.requests - gateway.acquires <= max_retries)
    /\ [][gateway'.acquires # gateway.acquires =>
            retryPc \in {"idle", "done"} /\ retryPc' = "calling"]_vars

\* C37, amended: every gateway operation calls acquire() exactly once, on
\* entry and so before its first attempt; no attempt, first or retried,
\* calls it again; an operation makes at most max_retries + 1 attempts, and
\* an operation that sends one request per attempt (every operation but
\* get_fills and get_market) sends at most max_retries more requests than
\* it was granted.
C37_OneAcquirePerOperation ==
    /\ [](gateway.op # "none" =>
            /\ gateway.acquires = 1
            /\ calls <= max_retries + 1
            /\ gateway.op \notin {"get_fills", "get_market"} =>
                 /\ gateway.requests = calls
                 /\ gateway.requests - gateway.acquires <= max_retries)
    /\ [][/\ gateway'.acquires # gateway.acquires =>
                retryPc \in {"idle", "done"} /\ retryPc' = "calling"
          /\ (retryPc \in {"idle", "done"} /\ retryPc' = "calling") =>
                gateway'.acquires = 1 /\ gateway'.requests = 0 /\ calls' = 0
          /\ calls' = calls + 1 =>
                gateway'.acquires = gateway.acquires
                /\ gateway'.requests > gateway.requests]_vars

\* An order placement was rate limited on every attempt: one grant,
\* max_retries + 1 requests.
C37_Witness ==
    /\ gateway.op = "place_order"
    /\ retryResult = "raised_rate_limit"
    /\ gateway.acquires = 1
    /\ gateway.requests = max_retries + 1
    /\ Len(sleeps) = max_retries

(***************************************************************************)
(* Claims about degenerate sizing, checked under SpecSizing.               *)
(***************************************************************************)
\* C39: calculate_contracts returns min_contracts for a non-positive price
\* or portfolio value; for an opportunity priced in 1..99 evaluate_entry
\* emits no signal when the portfolio value is not positive or when the
\* count had to be raised to min_contracts above
\* floor(max_position_pct * portfolio_value / entry_price); a signal that is
\* emitted never costs more than max_position_pct * portfolio_value.
C39_MinimumNeverBreaksMaximum ==
    fnArg # <<>> =>
      /\ (/\ fnArg.op = "calculate_contracts"
          /\ (fnArg.portfolio_value <= 0 \/ fnArg.entry_price <= 0)) =>
               fnRes = <<fnArg.settings.min_contracts>>
      /\ fnArg.op = "evaluate_entry" =>
           /\ fnArg.opportunity.entry_price \in 1..99
           /\ fnArg.portfolio_value <= 0 => fnRes = <<>>
           /\ (/\ fnArg.portfolio_value > 0
               /\ (fnArg.portfolio_value * fnArg.settings.max_position_pct)
                     \div (100 * fnArg.opportunity.entry_price)
                  < fnArg.settings.min_contracts) => fnRes = <<>>
           /\ fnRes # <<>> =>
                100 * fnRes[1].contracts * fnRes[1].entry_price
                   <= fnArg.portfolio_value * fnArg.settings.max_position_pct

\* A portfolio of 100 cents, 10% at most, contracts at 50 cents: the count
\* is raised from 0 to the minimum and the entry is rejected.
C39_Witness ==
    /\ fnArg # <<>>
    /\ fnArg.op = "evaluate_entry"
    /\ fnArg.portfolio_value = 100
    /\ fnArg.opportunity.entry_price = 50
    /\ fnArg.settings.max_position_pct = 10
    /\ CalculateContracts(100, 50, fnArg.settings) = fnArg.settings.min_contracts
    /\ fnRes = <<>>

(***************************************************************************)
(* Claims about errors during a scan, checked under SpecScan.              *)
(***************************************************************************)
\* C40: an error raised while the orderbook of one market is fetched or the
\* market is evaluated yields no opportunity and claims neither the ticker
\* nor its event prefix, and the scan goes on with the page; a scan ends
\* with an error only when the request for a page of markets fails.
C40_MarketErrorContained ==
    [][/\ (examined' = examined + 1 /\ last'.res = "error") =>
            /\ existingPositions' = existingPositions
            /\ existingEvents' = existingEvents
            /\ yielded' = yielded
            /\ scanPc' = "page"
       /\ examined' = examined + 1 => scanPc' = "page"
       /\ (scanPc # "idle" /\ scanPc' = "idle") =>
            /\ scanPc \in {"loop", "page"}
            /\ scanPc = "page" => last' = last
            /\ last'.res = "raised" =>
                 (scanPc = "loop" /\ ~stopRequested /\ last'.op = "get_markets")
       /\ (last' # last /\ last'.res = "raised") => scanPc' = "idle"]_vars

\* The second market of a page raised after the first was yielded: its
\* ticker and event are not claimed and the page is still being walked.
C40_Witness ==
    /\ scanPc = "page"
    /\ last = Call("examine", "error", {TkH}, 2)
    /\ yielded = <<TkGX>>
    /\ TkH \notin existingPositions
    /\ GetEventPrefix(TkH) \notin existingEvents

(***************************************************************************)
(* Claims about the daily statistics, checked under SpecStats.             *)
(***************************************************************************)
\* The contracts of ticker k that are open before the i-th trade of s: what
\* was entered less what earlier exits matched.
RECURSIVE OpenBefore(_, _, _)
OpenBefore(s, i, k) ==
    IF i <= 1 THEN 0
    ELSE LET t == s[i - 1]
             before == OpenBefore(s, i - 1, k)
         IN IF t.ticker # k THEN before
            ELSE IF t.action = "entry" THEN before + t.contracts
            ELSE before - Min(t.contracts, before)

\* The contracts of ticker k matched by the exits before the i-th trade.
RECURSIVE MatchedBefore(_, _, _)
MatchedBefore(s, i, k) ==
    IF i <= 1 THEN 0
    ELSE MatchedBefore(s, i - 1, k)
           + (IF s[i - 1].ticker = k /\ s[i - 1].action = "exit"
              THEN Min(s[i - 1].contracts, OpenBefore(s, i - 1, k)) ELSE 0)

\* The price paid for each contract of ticker k entered before the i-th
\* trade, oldest first.
RECURSIVE UnitPrices(_, _, _)
UnitPrices(s, i, k) ==
    IF i <= 1 THEN <<>>
    ELSE UnitPrices(s, i - 1, k)
           \o (IF s[i - 1].ticker = k /\ s[i - 1].action = "entry"
               THEN [n \in 1..s[i - 1].contracts |-> s[i - 1].price]
               ELSE <<>>)

\* The round trip of the exit s[i]: it takes the oldest open contracts.
ExpectedTrip(s, i) ==
    LET k == s[i].ticker
        matched == Min(s[i].contracts, OpenBefore(s, i, k))
        done == MatchedBefore(s, i, k)
        cost == SumSeq(SubSeq(UnitPrices(s, i, k), done + 1, done + matched))
    IN [ticker |-> k, contracts |-> matched, entry_cost |-> cost,
        exit_revenue |-> s[i].price * matched,
        pnl |-> s[i].price * matched - cost]

RECURSIVE ExpectedTrips(_, _)
ExpectedTrips(s, i) ==
    IF i > Len(s) THEN <<>>
    ELSE (IF s[i].action = "exit" /\ OpenBefore(s, i, s[i].ticker) > 0
          THEN <<ExpectedTrip(s, i)>> ELSE <<>>)
            \o ExpectedTrips(s, i + 1)

\* C31: the trades of the day are processed in timestamp order; each exit
\* takes the ticker's open contracts oldest first, min(exit contracts, open
\* contracts) of them, and its P&L is exit_price * matched less the price
\* of every contract taken; entries of 10 at 40c and 5 at 50c and an exit
\* of 12 at 70c give cost 500, revenue 840, P&L 340 and leave 3 at 50c.
C31_FifoReconciliation ==
    (fnArg # <<>> /\ fnArg.op = "print_summary") =>
      /\ fnRes.status = "returned"
      /\ fnRes.round_trips =
           ExpectedTrips(SortedTrades(AllTrades(fnArg.prior, fnArg.session)), 1)
      /\ (/\ fnArg.prior = <<>>
          /\ Len(fnArg.session) = 3
          /\ \A i \in 1..3 : fnArg.session[i].ticker = "A"
          /\ <<fnArg.session[1].action, fnArg.session[1].contracts,
               fnArg.session[1].price>> = <<"entry", 10, 40>>
          /\ <<fnArg.session[2].action, fnArg.session[2].contracts,
               fnArg.session[2].price>> = <<"entry", 5, 50>>
          /\ <<fnArg.session[3].action, fnArg.session[3].contracts,
               fnArg.session[3].price>> = <<"exit", 12, 70>>) =>
            /\ fnRes.round_trips =
                 <<[ticker |-> "A", contracts |-> 12, entry_cost |-> 500,
                    exit_revenue |-> 840, pnl |-> 340]>>
            /\ fnRes.entry_queues["A"] = <<[price |-> 50, remaining |-> 3]>>

ExclusionHit(market) ==
    \E p \in EXCLUDE_PATTERNS : Search(p, TextToCheck(market))

\* Some pattern of the category of that name is found in the text.
CategoryHit(market, name) ==
    \E i \in 1..Len(CATEGORY_PATTERNS) :
       /\ CATEGORY_PATTERNS[i].category = name
       /\ \E p \in CATEGORY_PATTERNS[i].patterns : Search(p, TextToCheck(market))

\* The order the categories are declared in.
DeclaredOrder ==
    <<"college_basketball", "basketball", "player_props", "crypto", "weather",
      "politics", "economics", "sports">>

\* The first category of the declared order with a pattern found in the
\* text; <<>> when there is none.
FirstHit(market) ==
    IF \E i \in 1..Len(DeclaredOrder) : CategoryHit(market, DeclaredOrder[i])
    THEN <<DeclaredOrder[CHOOSE i \in 1..Len(DeclaredOrder) :
                            /\ CategoryHit(market, DeclaredOrder[i])
                            /\ \A j \in 1..(i - 1) :
                                  ~CategoryHit(market, DeclaredOrder[j])]>>
    ELSE <<>>

\* C32: for a market in which an exclusion pattern is found,
\* matches_category is false for every target, 'all' and the market's own
\* category included.
C32_ExclusionAlwaysWins ==
    (fnArg # <<>> /\ fnArg.op = "matches_category"
       /\ ExclusionHit(fnArg.market)) => fnRes = <<FALSE>>

\* An excluded market asked for with the category get_category gives it.
C32_Witness ==
    /\ fnArg # <<>>
    /\ fnArg.op = "matches_category"
    /\ ExclusionHit(fnArg.market)
    /\ GetCategory(fnArg.market) = <<"crypto">>
    /\ fnArg.target.name = "crypto"
    /\ fnRes = <<FALSE>>

\* C33: get_category returns the first category of the declared order that
\* has a pattern matching the market, or none; for a market that is not
\* excluded and a target other than 'all', matches_category holds for that
\* category and no other; a market matching both the college_basketball
\* and the basketball patterns matches college_basketball only.
C33_FirstCategoryWins ==
    fnArg # <<>> =>
      /\ fnArg.op = "get_category" => fnRes = FirstHit(fnArg.market)
      /\ (/\ fnArg.op = "matches_category"
          /\ ~ExclusionHit(fnArg.market)
          /\ fnArg.target.name # "all") =>
            /\ fnRes = <<FirstHit(fnArg.market) = <<fnArg.target.name>>>>
            /\ (/\ CategoryHit(fnArg.market, "college_basketball")
                /\ CategoryHit(fnArg.market, "basketball")) =>
                  fnRes = <<fnArg.target.name = "college_basketball">>

\* A college game, which the basketball patterns match as well, asked for
\* with the target basketball: no match.
C33_Witness ==
    /\ fnArg # <<>>
    /\ fnArg.op = "matches_category"
    /\ ~ExclusionHit(fnArg.market)
    /\ CategoryHit(fnArg.market, "college_basketball")
    /\ CategoryHit(fnArg.market, "basketball")
    /\ fnArg.target.name = "basketball"
    /\ fnRes = <<FALSE>>

====
